---- MODULE Spec2Model ----
(***************************************************************************)
(* Model of the portfolio dashboard's caching / aggregation core:          *)
(*   src/src/lib/portfolioData.ts   (aggregator, symbol resolver)          *)
(*   src/src/utils/helpers.ts       (BSE fetchers, lines 47-463)           *)
(*   src/src/lib/scripcodeCache.ts  (scripcode store)                      *)
(*   src/unnamed/part_004           (price store, priceCache.ts)           *)
(*   src/unnamed/part_001           (fundamentals store, lines 308-403)    *)
(*                                                                         *)
(* Numbers are JavaScript numbers restricted to integers, plus NaN and the *)
(* JSON null: money is counted in whole units, so every product,           *)
(* difference and quotient below is exact.  Strings that the code parses   *)
(* or formats are sequences of one-character strings.                      *)
(***************************************************************************)
EXTENDS Integers, Sequences, FiniteSets, TLC

VARIABLES
    cIn,        \* SpecCalc: the arguments of the last pure-function call
    cOut,       \* SpecCalc: what that call returned
    now,        \* Date.now(), in ms
    ticks,      \* how often the clock has advanced
    scripFile,  \* .cache/scripcode-mapping.json
    priceFile,  \* .cache/price-cache.json
    fundFile,   \* .cache/fundamentals-cache.json
    stStore,    \* SpecStore: the store the behaviour exercises
    stSaved,    \* SpecStore: the mapping and time of the last successful save
    stLoaded,   \* SpecStore: the result of a load at the current time
    fmKind,     \* SpecFetch: "price" (fetchMultipleBSEData) or "fundamentals"
    fmList,     \* SpecFetch: the scripcodes argument
    fmPc,       \* SpecFetch: where the call stands
    fmI,        \* SpecFetch: the loop variable i
    fmPending,  \* SpecFetch: positions of the batch whose request is in flight
    fmBatch,    \* SpecFetch: position -> data (or null) of the settled requests
    fmResults,  \* SpecFetch: the results Map
    fmLog,      \* SpecFetch: what has happened (requests, failures, delays)
    holdings,   \* the static portfolio (getPortfolioData())
    last,       \* Spec: what the last aggregation call did and returned
    prev,       \* Spec: a summary of the call before the last one
    calls,      \* Spec: how many aggregation calls have run
    procs,      \* SpecRace: the two aggregation calls under way, step by step
    lastSave,   \* SpecRace: per cache file, the document of the last finished save
    view,       \* SpecPoll: the state of usePortfolioData and whether it is mounted
    polls       \* SpecPoll: the fetchData calls started, in flight and last settled

calcVars == <<cIn, cOut>>
fileVars == <<scripFile, priceFile, fundFile>>
storeVars == <<stStore, stSaved, stLoaded>>
fetchVars == <<fmKind, fmList, fmPc, fmI, fmPending, fmBatch, fmResults, fmLog>>
vars == <<cIn, cOut, now, ticks, scripFile, priceFile, fundFile,
          stStore, stSaved, stLoaded,
          fmKind, fmList, fmPc, fmI, fmPending, fmBatch, fmResults, fmLog,
          holdings, last, prev, calls, procs, lastSave, view, polls>>
aggVars == <<holdings, last, prev, calls>>
raceVars == <<procs, lastSave>>
pollVars == <<view, polls>>

----------------------------------------------------------------------------
(* JavaScript values *)

Num(v) == [t |-> "num", v |-> v]
NaN == [t |-> "nan", v |-> 0]
Null == [t |-> "null", v |-> 0]

IsNum(x) == x.t = "num"

\* ToNumber of a value used as an operand: null converts to 0, NaN stays NaN
ToNumber(x) == IF x.t = "null" THEN Num(0) ELSE x

JSMul(a, b) ==
    IF ToNumber(a).t = "nan" \/ ToNumber(b).t = "nan" THEN NaN
    ELSE Num(ToNumber(a).v * ToNumber(b).v)

JSSub(a, b) ==
    IF ToNumber(a).t = "nan" \/ ToNumber(b).t = "nan" THEN NaN
    ELSE Num(ToNumber(a).v - ToNumber(b).v)

\* a >= 0 : false for NaN
JSGeZero(a) == ToNumber(a).t = "num" /\ ToNumber(a).v >= 0

----------------------------------------------------------------------------
(* Strings as sequences of characters *)

DigitChars == <<"0", "1", "2", "3", "4", "5", "6", "7", "8", "9">>

IsDigit(c) == \E d \in 1..10 : DigitChars[d] = c

DigitVal(c) == (CHOOSE d \in 1..10 : DigitChars[d] = c) - 1

RECURSIVE NatToChars(_)
NatToChars(n) ==
    IF n < 10 THEN <<DigitChars[n + 1]>>
    ELSE NatToChars(n \div 10) \o <<DigitChars[(n % 10) + 1]>>

RECURSIVE CharsToNat(_)
CharsToNat(s) ==
    IF s = <<>> THEN 0
    ELSE 10 * CharsToNat(SubSeq(s, 1, Len(s) - 1)) + DigitVal(s[Len(s)])

Abs(x) == IF x < 0 THEN -x ELSE x

----------------------------------------------------------------------------
(* Optional strings of a vendor response: a field is missing or a string *)

MissingStr == [has |-> FALSE, s |-> <<>>]
Str(s) == [has |-> TRUE, s |-> s]

\* JavaScript truthiness of an optional string: undefined and "" are falsy
Truthy(x) == x.has /\ x.s # <<>>

\* a || b
JSOr(a, b) == IF Truthy(a) THEN a ELSE b

RECURSIVE TrimLeft(_)
TrimLeft(s) ==
    IF s # <<>> /\ s[1] = " " THEN TrimLeft(Tail(s)) ELSE s

RECURSIVE DigitPrefix(_)
DigitPrefix(s) ==
    IF s # <<>> /\ IsDigit(s[1]) THEN <<s[1]>> \o DigitPrefix(Tail(s)) ELSE <<>>

\* parseFloat on strings without a fraction or an exponent: leading white
\* space is skipped, one sign is accepted, the longest digit prefix is the
\* value, and no digit at all gives NaN
parseFloat(s) ==
    LET t == TrimLeft(s)
        signed == t # <<>> /\ t[1] \in {"+", "-"}
        body == IF signed THEN Tail(t) ELSE t
        digits == DigitPrefix(body)
    IN  IF digits = <<>> THEN NaN
        ELSE IF signed /\ t[1] = "-" THEN Num(0 - CharsToNat(digits))
        ELSE Num(CharsToNat(digits))

\* mapBSEResponseToStockData, the price field:
\*   ltp = parseFloat(data.CurrRate?.LTP || data.Header?.LTP || '0')
\* (previousClose, open, high and low are parsed by the same expression
\* shape from their own Header fields)
mapBSEResponseToStockData(scripcode, data) ==
    [scripcode |-> scripcode,
     currentPrice |->
        parseFloat(JSOr(JSOr(data.CurrLTP, data.HeaderLTP), Str(<<"0">>)).s),
     lastUpdated |-> data.Ason]

\* A vendor reply to one HTTP GET: the request failed (network error, non-2xx
\* status, body that is not JSON) or it carries a parsed body
FailedReply == [ok |-> FALSE]
OkReply(body) == [ok |-> TRUE, body |-> body]

\* What fetchOne returns: null, or a record
NoData == [some |-> FALSE]
Data(d) == [some |-> TRUE, d |-> d]

\* fetchBSEData: any error inside the try block yields null
fetchBSEData(scripcode, reply) ==
    IF ~reply.ok THEN NoData
    ELSE Data(mapBSEResponseToStockData(scripcode, reply.body))

\* parseNumber of mapBSEFundamentalsResponse: missing, empty, "-" and white
\* space give null, and so does a string parseFloat cannot read
IsBlank(s) == \A i \in 1..Len(s) : s[i] = " "

\* a parseNumber that turns what it cannot read into 0
parseNumber_Zero(value) ==
    IF ~Truthy(value) \/ value.s = <<"-">> \/ IsBlank(value.s) THEN Num(0)
    ELSE IF parseFloat(value.s).t = "nan" THEN Num(0)
    ELSE parseFloat(value.s)

parseNumber(value) ==
    IF ~Truthy(value) \/ value.s = <<"-">> \/ IsBlank(value.s) THEN Null
    ELSE IF parseFloat(value.s).t = "nan" THEN Null
    ELSE parseFloat(value.s)

\* mapBSEFundamentalsResponse: the three ratios the aggregator overlays
mapBSEFundamentalsResponse(scripcode, data) ==
    [scripcode |-> scripcode,
     pe |-> parseNumber(data.PE),
     pb |-> parseNumber(data.PB),
     eps |-> parseNumber(data.EPS)]

\* a || b on number | null: null, 0 and NaN are falsy
NumOr(a, b) == IF a.t = "num" /\ a.v # 0 THEN a ELSE b

\* faceValue: parseNumber(data.FaceVal) || 0
faceValue(data) == NumOr(parseNumber(data.FaceVal), Num(0))

\* fetchBSEFundamentals: any error inside the try block yields null
fetchBSEFundamentals(scripcode, reply) ==
    IF ~reply.ok THEN NoData
    ELSE Data(mapBSEFundamentalsResponse(scripcode, reply.body))

----------------------------------------------------------------------------
(* Recomputed realtime block of a holding *)

\* Number.prototype.toFixed(2) of (numer / denom) * 100 for denom > 0:
\* the nearest multiple of 0.01, ties away from zero, "-" kept for every
\* negative value (also one that rounds to 0.00)
ToFixed2Trunc(numer, denom) ==
    LET n == (Abs(numer) * 10000) \div denom
        frac == n % 100
    IN  (IF numer < 0 THEN <<"-">> ELSE <<>>)
        \o NatToChars(n \div 100) \o <<".">>
        \o <<DigitChars[(frac \div 10) + 1], DigitChars[(frac % 10) + 1]>>

ToFixed2(numer, denom) ==
    LET n == (2 * Abs(numer) * 10000 + denom) \div (2 * denom)
        frac == n % 100
    IN  (IF numer < 0 THEN <<"-">> ELSE <<>>)
        \o NatToChars(n \div 100) \o <<".">>
        \o <<DigitChars[(frac \div 10) + 1], DigitChars[(frac % 10) + 1]>>

\* holding.fixed.investment > 0
\*   ? ((newGainLoss / holding.fixed.investment) * 100).toFixed(2) : '0.00'
GainLossPercentDigits(newGainLoss, investment) ==
    IF investment > 0
    THEN IF newGainLoss.t = "nan" THEN <<"N", "a", "N">>
         ELSE ToFixed2(newGainLoss.v, investment)
    ELSE <<"0", ".", "0", "0">>

\* `${newGainLoss >= 0 ? '+' : ''}${newGainLossPercent}%`
GainLossPercent_NoSign(newGainLoss, investment) ==
    (IF JSGeZero(newGainLoss) /\ investment > 0 THEN <<"+">> ELSE <<>>)
    \o GainLossPercentDigits(newGainLoss, investment) \o <<"%">>

GainLossPercent(newGainLoss, investment) ==
    (IF JSGeZero(newGainLoss) THEN <<"+">> ELSE <<>>)
    \o GainLossPercentDigits(newGainLoss, investment) \o <<"%">>

\* The realtime block written at portfolioData.ts 186-202 (and 264-279)
UpdateRealtime(holding, bseData) ==
    LET newPresentValue == JSMul(bseData.currentPrice, Num(holding.fixed.qty))
        newGainLoss == JSSub(newPresentValue, Num(holding.fixed.investment))
    IN  [cmp |-> bseData.currentPrice,
         presentValue |-> newPresentValue,
         gainLoss |-> newGainLoss,
         gainLossPercent |-> GainLossPercent(newGainLoss, holding.fixed.investment),
         marketCap |-> holding.realtime.marketCap,
         lastUpdated |-> bseData.lastUpdated,
         priceSource |-> "bse"]


----------------------------------------------------------------------------
(* The three cache files *)

PRICE_CACHE_DURATION_MS == 2 * 60 * 1000
CACHE_DURATION_MS == 24 * 60 * 60 * 1000

\* A file is missing, holds only white space, holds text that is not the
\* expected JSON document, or holds a document
Missing == [kind |-> "missing"]
EmptyFile == [kind |-> "empty"]
Garbage == [kind |-> "garbage"]
Doc(d) == [kind |-> "doc", doc |-> d]

EmptyMap == <<>>

\* Map.set(key, value)
MapSet(m, key, value) ==
    [k \in DOMAIN m \cup {key} |-> IF k = key THEN value ELSE m[k]]

\* JSON.stringify writes NaN as null; JSON.parse reads null back as null
JsonNumber(x) == IF x.t = "nan" THEN Null ELSE x
JsonPrice(d) == [d EXCEPT !.currentPrice = JsonNumber(@)]
JsonFund(d) ==
    [d EXCEPT !.pe = JsonNumber(@), !.pb = JsonNumber(@), !.eps = JsonNumber(@)]

\* a load that lets a failed readFile through and serves what the file holds
loadScripcodeCache_NoCatch(file, readable) ==
    IF file.kind = "doc" THEN file.doc ELSE EmptyMap

\* loadScripcodeCache: readFile or JSON.parse throwing, and an empty file,
\* give an empty Map
loadScripcodeCache(file, readable) ==
    IF readable /\ file.kind = "doc" THEN file.doc ELSE EmptyMap

\* saveScripcodeCache: mkdir or writeFile throwing leaves the file as it was
saveScripcodeCache(file, mappings, writable) ==
    IF writable THEN Doc(mappings) ELSE file

\* addScripcodeMapping
addScripcodeMapping(file, symbol, scripcode, readable, writable) ==
    saveScripcodeCache(file,
        MapSet(loadScripcodeCache(file, readable), symbol, scripcode), writable)

isPriceCacheValid_Le(timestamp, t) == (t - timestamp) <= PRICE_CACHE_DURATION_MS

isPriceCacheValid(timestamp, t) == (t - timestamp) < PRICE_CACHE_DURATION_MS

loadPriceCache(file, readable, t) ==
    IF readable /\ file.kind = "doc"
    THEN [k \in {x \in DOMAIN file.doc : isPriceCacheValid(file.doc[x].timestamp, t)}
            |-> file.doc[k].data]
    ELSE EmptyMap

\* savePriceCache: the document holds exactly the entries of `prices`, each
\* stamped with the time of the write
savePriceCache(file, prices, writable, t) ==
    IF writable
    THEN Doc([k \in DOMAIN prices |->
                [timestamp |-> t, data |-> JsonPrice(prices[k])]])
    ELSE file

savePriceToCache(file, scripcode, data, readable, writable, t) ==
    savePriceCache(file,
        MapSet(loadPriceCache(file, readable, t), scripcode, data), writable, t)

isCacheValid(timestamp, t) == (t - timestamp) < CACHE_DURATION_MS

\* loadFundamentalsCache returns null or a Map
NoMap == [some |-> FALSE, m |-> EmptyMap]
SomeMap(m) == [some |-> TRUE, m |-> m]

loadFundamentalsCache(file, readable, t) ==
    IF readable /\ file.kind = "doc"
    THEN IF file.doc.timestamp = 0 THEN NoMap
         ELSE IF isCacheValid(file.doc.timestamp, t) THEN SomeMap(file.doc.data)
         ELSE NoMap
    ELSE NoMap

\* saveFundamentalsCache: one timestamp for the whole document
saveFundamentalsCache(file, data, writable, t) ==
    IF writable
    THEN Doc([timestamp |-> t, data |-> [k \in DOMAIN data |-> JsonFund(data[k])]])
    ELSE file

----------------------------------------------------------------------------
(* fetchMultipleBSEData / fetchMultipleBSEFundamentals *)

BATCH_SIZE == 10

\* no fetchMany call is under way
FetchIdle ==
    /\ fmKind = "none" /\ fmList = <<>> /\ fmPc = "idle" /\ fmI = 0
    /\ fmPending = {} /\ fmBatch = <<>> /\ fmResults = <<>>
    /\ fmLog = [settled |-> <<>>, batches |-> 0, delays |-> 0, raised |-> FALSE]

----------------------------------------------------------------------------
(* The static portfolio and the vendor *)

\* the characters of the symbols of the model
SymbolChars(symbol) ==
    CASE symbol = "HDFC" -> <<"H", "D", "F", "C">>
      [] symbol = "INFY" -> <<"I", "N", "F", "Y">>
      [] symbol = "500180" -> <<"5", "0", "0", "1", "8", "0">>
      [] OTHER -> <<>>

\* a pattern that accepts the empty string: /^\d*$/
ScripcodePattern_Star(c) == DigitPrefix(c) = c

\* /^\d+$/.test(c): from the start of the input the longest run of digits is
\* taken, it has at least one digit, and the input ends where the run ends
ScripcodePattern(c) ==
    LET run == DigitPrefix(c)
    IN  Len(run) >= 1 /\ Len(run) = Len(c)

\* isBSEScripcode
isBSEScripcode(symbol) == ScripcodePattern(SymbolChars(symbol))

\* the scripcode the vendor's search page carries for a symbol
VendorScripcode(symbol) ==
    CASE symbol = "HDFC" -> "500180"
      [] symbol = "INFY" -> "500209"
      [] OTHER -> symbol

StaticHolding(symbol, qty, investment) ==
    [symbol |-> symbol,
     companyName |-> symbol,
     sector |-> "Financials",
     fixed |-> [purchasePrice |-> 100, qty |-> qty, investment |-> investment,
                portfolioPercent |-> "10%"],
     realtime |-> [cmp |-> Num(100), presentValue |-> Num(100 * qty),
                   gainLoss |-> Num(100 * qty - investment),
                   gainLossPercent |-> <<"s", "t", "a", "t", "i", "c">>,
                   marketCap |-> 5],
     fundamentals |-> [peTTM |-> Num(20), priceToBook |-> Null,
                       latestEarnings |-> Num(7), debtToEquity |-> Num(1)]]

\* portfolio.json: two non-numeric symbols, one of them held twice, or a
\* numeric symbol next to the symbol that resolves to the same scripcode
Portfolios ==
    {<<StaticHolding("HDFC", 10, 1000), StaticHolding("INFY", 5, 0),
       StaticHolding("HDFC", 2, 300)>>,
     <<StaticHolding("500180", 10, 1000), StaticHolding("INFY", 5, 600),
       StaticHolding("HDFC", 1, 90)>>}

\* no aggregation call has run
NoCall == [kind |-> "none"]
NoPrev ==
    [kind |-> "none", at |-> 0, clean |-> FALSE, searchFailed |-> {},
     fundFetched |-> {}]
\* error: null
NoError == "null"

\* Date.prototype.toLocaleString of the time t; `at` 0 stands for ''
toLocaleString(t) == [at |-> t]

\* usePortfolioData before its effect has run: the useState initial values
InitialView ==
    [mounted |-> FALSE, holdings |-> <<>>, loading |-> TRUE, error |-> NoError,
     lastUpdated |-> toLocaleString(0)]

NoPolls ==
    [started |-> 0, flying |-> {},
     settled |-> [id |-> 0, ok |-> FALSE, holdings |-> <<>>,
                  lastUpdated |-> toLocaleString(0)]]

\* the dashboard is not rendered
PollIdle == view = InitialView /\ polls = NoPolls

\* no concurrent calls are under way
RaceIdle == procs = <<>> /\ lastSave = <<>>

AggIdle ==
    /\ holdings = <<>> /\ last = NoCall /\ prev = NoPrev /\ calls = 0
    /\ RaceIdle /\ PollIdle

\* the vendor's replies at time t
VendorPriceBody(t) ==
    [CurrLTP |-> Str(<<"1", "2", "0">>), HeaderLTP |-> MissingStr, Ason |-> t]
VendorFundBody ==
    [PE |-> Str(<<"1", "5">>), PB |-> Str(<<"-">>), EPS |-> Str(<<"0">>)]

\* fetchMultipleBSEData(scripcodes): the requests in `ok` succeed (what the
\* call returns for each pattern of failures is established in SpecFetch)
fetchMultipleBSEData(scripcodes, ok, t) ==
    [k \in scripcodes \cap ok |-> fetchBSEData(k, OkReply(VendorPriceBody(t))).d]

fetchMultipleBSEFundamentals(scripcodes, ok) ==
    [k \in scripcodes \cap ok |-> fetchBSEFundamentals(k, OkReply(VendorFundBody)).d]

\* a || b on numbers: 0 is replaced as well
Nullish_Or(a, b) == IF a.t = "null" \/ a = Num(0) THEN b ELSE a

\* a ?? b
Nullish(a, b) == IF a.t = "null" THEN b ELSE a

mapBSEFundamentalsToPortfolio(bseFundamentals, existingFundamentals) ==
    [existingFundamentals EXCEPT
        !.peTTM = Nullish(bseFundamentals.pe, @),
        !.priceToBook = Nullish(bseFundamentals.pb, @),
        !.latestEarnings = Nullish(bseFundamentals.eps, @)]

----------------------------------------------------------------------------
(* The aggregator: getPortfolioWithRealtimeData, getHoldingWithRealtimeData *)

\* the file operations of one call that may fail
IoOps == {"readScrip", "readPrice", "rereadPrice", "readFund",
          "writeScrip", "writePrice", "writeFund"}

\* store functions whose save has no try/catch
HandledOps_ReadsOnly == {"readScrip", "readPrice", "rereadPrice", "readFund"}

\* the file operations wrapped by a try/catch of their store function
HandledOps == IoOps

\* a failing file operation whose exception leaves the aggregator
Escapes(faults) == faults \ HandledOps # {}

UniqueSymbols == {holdings[i].symbol : i \in 1..Len(holdings)}

\* one resolveBSEScripcode call per holding instead of per distinct symbol
SymbolCalls_PerHolding(x) ==
    Cardinality({i \in 1..Len(holdings) : holdings[i].symbol = x})

\* how often x occurs in uniqueSymbols = [...new Set(holdings.map(h => h.symbol))],
\* that is, how many resolveBSEScripcode(x) calls uniqueSymbols.map starts
SymbolCalls(x) == IF x \in UniqueSymbols THEN 1 ELSE 0

\* how often k occurs in uniqueScripcodes = [...new Set(symbolToScripcode.values())],
\* the array the fundamentals and price requests are taken from
ScripcodeCalls(k, symbolToScripcode) ==
    IF \E x \in DOMAIN symbolToScripcode : symbolToScripcode[x] = k THEN 1 ELSE 0

\* resolveBSEScripcode: scripcode "" stands for null; `searched` tells that
\* the vendor search was called
resolveBSEScripcode(symbol, scripcodeCache, searchOk) ==
    IF isBSEScripcode(symbol)
    THEN [scripcode |-> symbol, searched |-> FALSE]
    ELSE IF symbol \in DOMAIN scripcodeCache /\ scripcodeCache[symbol] # ""
    THEN [scripcode |-> scripcodeCache[symbol], searched |-> FALSE]
    ELSE [scripcode |-> IF searchOk THEN VendorScripcode(symbol) ELSE "",
          searched |-> TRUE]

\* a resolver that also remembers a failed search, as an empty entry
CacheAfterResolve_Negative(scripcodeCache, resolved) ==
    LET set == {x \in DOMAIN resolved : resolved[x].searched}
    IN  [x \in DOMAIN scripcodeCache \cup set |->
            IF x \in set THEN resolved[x].scripcode ELSE scripcodeCache[x]]

\* the Map handed to the resolver, after its scripcodeCache.set(symbol,
\* scripcode) for every symbol the search found (portfolioData.ts line 58)
CacheAfterResolve(scripcodeCache, resolved) ==
    LET set == {x \in DOMAIN resolved :
                    resolved[x].searched /\ resolved[x].scripcode # ""}
    IN  [x \in DOMAIN scripcodeCache \cup set |->
            IF x \in set THEN resolved[x].scripcode ELSE scripcodeCache[x]]

\* union of two Maps, the second winning
MapMerge(a, b) ==
    [k \in DOMAIN a \cup DOMAIN b |-> IF k \in DOMAIN b THEN b[k] ELSE a[k]]

\* getFundamentalsForBSEScripcodes
getFundamentalsForBSEScripcodes(scripcodes, file, readable, writable, ok, t) ==
    IF scripcodes = {}
    THEN [map |-> EmptyMap, file |-> file, requested |-> {}, saves |-> 0,
          io |-> {}, cached |-> {}]
    ELSE
        LET cached == loadFundamentalsCache(file, readable, t)
            result == IF cached.some THEN cached.m ELSE EmptyMap
            missingScripcodes == {k \in scripcodes : k \notin DOMAIN result}
            fetchedFundamentals == fetchMultipleBSEFundamentals(missingScripcodes, ok)
            merged == MapMerge(result, fetchedFundamentals)
        IN  IF missingScripcodes = {}
            THEN [map |-> result, file |-> file, requested |-> {}, saves |-> 0,
                  io |-> {"readFund"}, cached |-> scripcodes \cap DOMAIN result]
            ELSE [map |-> merged,
                  file |-> saveFundamentalsCache(file, merged, writable, t),
                  requested |-> missingScripcodes, saves |-> 1,
                  io |-> {"readFund", "writeFund"},
                  cached |-> scripcodes \cap DOMAIN result]

\* a holding without a price gets a zero price instead of its static block
EnrichHolding_ZeroPrice(holding, symbolToScripcode, priceDataMap, fundamentalsMap) ==
    LET enriched == IF holding.symbol \notin DOMAIN symbolToScripcode THEN holding
                    ELSE IF symbolToScripcode[holding.symbol] \in DOMAIN fundamentalsMap
                    THEN [holding EXCEPT
                            !.fundamentals = mapBSEFundamentalsToPortfolio(
                                fundamentalsMap[symbolToScripcode[holding.symbol]],
                                holding.fundamentals)]
                    ELSE holding
    IN  [enriched EXCEPT !.realtime =
            UpdateRealtime(holding,
                IF holding.symbol \in DOMAIN symbolToScripcode
                    /\ symbolToScripcode[holding.symbol] \in DOMAIN priceDataMap
                THEN priceDataMap[symbolToScripcode[holding.symbol]]
                ELSE [scripcode |-> "", currentPrice |-> Num(0), lastUpdated |-> 0])]

\* the body of holdings.map(holding => ...), lines 176-220
EnrichHolding(holding, symbolToScripcode, priceDataMap, fundamentalsMap) ==
    IF holding.symbol \notin DOMAIN symbolToScripcode THEN holding
    ELSE
        LET scripcode == symbolToScripcode[holding.symbol]
            withPrice ==
                IF scripcode \in DOMAIN priceDataMap
                THEN [holding EXCEPT
                        !.realtime = UpdateRealtime(holding, priceDataMap[scripcode])]
                ELSE holding
        IN  IF scripcode \in DOMAIN fundamentalsMap
            THEN [withPrice EXCEPT
                    !.fundamentals = mapBSEFundamentalsToPortfolio(
                                        fundamentalsMap[scripcode], holding.fundamentals)]
            ELSE withPrice

MapHoldings_SkipUnresolved(symbolToScripcode, priceDataMap, fundamentalsMap) ==
    LET resolvedOnly == SelectSeq(holdings, LAMBDA h : h.symbol \in DOMAIN symbolToScripcode)
    IN  [i \in 1..Len(resolvedOnly) |->
            EnrichHolding(resolvedOnly[i], symbolToScripcode, priceDataMap, fundamentalsMap)]

MapHoldings(symbolToScripcode, priceDataMap, fundamentalsMap) ==
    [i \in 1..Len(holdings) |->
        EnrichHolding(holdings[i], symbolToScripcode, priceDataMap, fundamentalsMap)]

\* One getPortfolioWithRealtimeData call at time `now`, with the file
\* operations in e.faults failing and the vendor answering the searches of
\* e.found and the fetches of e.fundOk / e.priceOk.  Returns the files it
\* leaves and a log of what it did.
getPortfolioWithRealtimeData(e) ==
    LET scripcodeCache == loadScripcodeCache(scripFile, "readScrip" \notin e.faults)
        priceCache == loadPriceCache(priceFile, "readPrice" \notin e.faults, now)
        resolved == [x \in UniqueSymbols |->
                        resolveBSEScripcode(x, scripcodeCache, x \in e.found)]
        afterResolve == CacheAfterResolve(scripcodeCache, resolved)
        symbolToScripcode ==
            [x \in {y \in UniqueSymbols : resolved[y].scripcode # ""} |->
                resolved[x].scripcode]
        newMappings ==
            [x \in {y \in DOMAIN symbolToScripcode : y \notin DOMAIN afterResolve} |->
                symbolToScripcode[x]]
        uniqueScripcodes == {symbolToScripcode[x] : x \in DOMAIN symbolToScripcode}
        fund == getFundamentalsForBSEScripcodes(uniqueScripcodes, fundFile,
                    "readFund" \notin e.faults, "writeFund" \notin e.faults,
                    e.fundOk, now)
        scripcodesToFetch == {k \in uniqueScripcodes : k \notin DOMAIN priceCache}
        fetchedPrices == fetchMultipleBSEData(scripcodesToFetch, e.priceOk, now)
        priceDataMap ==
            MapMerge([k \in uniqueScripcodes \cap DOMAIN priceCache |-> priceCache[k]],
                     fetchedPrices)
    IN  [scripFile |->
            IF DOMAIN newMappings # {}
            THEN saveScripcodeCache(scripFile, MapMerge(afterResolve, newMappings),
                                    "writeScrip" \notin e.faults)
            ELSE scripFile,
         fundFile |-> fund.file,
         priceFile |->
            IF scripcodesToFetch # {}
            THEN savePriceCache(priceFile, fetchedPrices,
                                "writePrice" \notin e.faults, now)
            ELSE priceFile,
         log |->
            [kind |-> "all",
             symbol |-> "",
             at |-> now,
             faults |-> e.faults \cap
                        ({"readScrip", "readPrice"} \cup fund.io
                         \cup (IF DOMAIN newMappings # {} THEN {"writeScrip"} ELSE {})
                         \cup (IF scripcodesToFetch # {} THEN {"writePrice"} ELSE {})),
             searched |-> {x \in UniqueSymbols : resolved[x].searched},
             found |-> {x \in UniqueSymbols :
                            resolved[x].searched /\ resolved[x].scripcode # ""},
             priceCached |-> uniqueScripcodes \cap DOMAIN priceCache,
             scripCached |-> UniqueSymbols \cap DOMAIN scripcodeCache,
             searchFailed |-> {x \in UniqueSymbols : resolved[x].searched} \ e.found,
             memMapping |-> MapMerge(afterResolve, newMappings),
             searchCount |-> [x \in {y \in UniqueSymbols : resolved[y].searched} |->
                                SymbolCalls(x)],
             fundCount |-> [k \in fund.requested |->
                                ScripcodeCalls(k, symbolToScripcode)],
             priceCount |-> [k \in scripcodesToFetch |->
                                ScripcodeCalls(k, symbolToScripcode)],
             resolvedTo |-> symbolToScripcode,
             fundCached |-> fund.cached,
             fundRequested |-> fund.requested,
             fundFetched |-> fund.requested \cap e.fundOk,
             priceRequested |-> scripcodesToFetch,
             priceFetched |-> DOMAIN fetchedPrices,
             scripSaves |-> IF DOMAIN newMappings # {} THEN 1 ELSE 0,
             fundSaves |-> fund.saves,
             priceSaves |-> IF scripcodesToFetch # {} THEN 1 ELSE 0,
             raised |-> Escapes(e.faults),
             result |-> IF Escapes(e.faults) THEN <<>>
                        ELSE MapHoldings(symbolToScripcode, priceDataMap, fund.map)]]

\* a find that returns the last match
FindHolding_Last(symbol) ==
    IF symbol \in UniqueSymbols
    THEN CHOOSE i \in 1..Len(holdings) :
            /\ holdings[i].symbol = symbol
            /\ \A j \in (i + 1)..Len(holdings) : holdings[j].symbol # symbol
    ELSE 0

\* holdings.find(h => h.symbol === symbol): the index of the first match, 0
\* for none
FindHolding(symbol) ==
    IF symbol \in UniqueSymbols
    THEN CHOOSE i \in 1..Len(holdings) :
            /\ holdings[i].symbol = symbol
            /\ \A j \in 1..(i - 1) : holdings[j].symbol # symbol
    ELSE 0

\* One getHoldingWithRealtimeData(symbol) call at time `now`
getHoldingWithRealtimeData(symbol, e) ==
    IF FindHolding(symbol) = 0
    THEN [scripFile |-> scripFile, fundFile |-> fundFile, priceFile |-> priceFile,
          log |-> [kind |-> "one", symbol |-> symbol, at |-> now, faults |-> {},
                   searched |-> {}, found |-> {}, priceCached |-> {},
                   scripCached |-> {}, searchCount |-> EmptyMap,
                   searchFailed |-> {}, memMapping |-> EmptyMap,
                   fundCount |-> EmptyMap, priceCount |-> EmptyMap,
                   resolvedTo |-> EmptyMap,
                   fundCached |-> {},
                   fundRequested |-> {}, fundFetched |-> {},
                   priceRequested |-> {}, priceFetched |-> {},
                   scripSaves |-> 0, fundSaves |-> 0, priceSaves |-> 0,
                   raised |-> FALSE, result |-> <<>>]]
    ELSE
        LET holding == holdings[FindHolding(symbol)]
            scripcodeCache == loadScripcodeCache(scripFile, "readScrip" \notin e.faults)
            priceCache == loadPriceCache(priceFile, "readPrice" \notin e.faults, now)
            resolved == resolveBSEScripcode(symbol, scripcodeCache, symbol \in e.found)
            afterResolve ==
                CacheAfterResolve(scripcodeCache, [x \in {symbol} |-> resolved])
            scripcode == resolved.scripcode
            saveMapping == scripcode # "" /\ symbol \notin DOMAIN afterResolve
            hit == scripcode # "" /\ scripcode \in DOMAIN priceCache
            fetched ==
                IF scripcode # "" /\ ~hit /\ scripcode \in e.priceOk
                THEN fetchBSEData(scripcode, OkReply(VendorPriceBody(now)))
                ELSE NoData
            priceDataMap ==
                IF hit THEN [k \in {scripcode} |-> priceCache[k]]
                ELSE IF fetched.some THEN [k \in {scripcode} |-> fetched.d]
                ELSE EmptyMap
            fund == getFundamentalsForBSEScripcodes(
                        IF scripcode # "" THEN {scripcode} ELSE {}, fundFile,
                        "readFund" \notin e.faults, "writeFund" \notin e.faults,
                        e.fundOk, now)
            symbolToScripcode ==
                [x \in (IF scripcode # "" THEN {symbol} ELSE {}) |-> scripcode]
        IN  [scripFile |->
                IF saveMapping
                THEN saveScripcodeCache(scripFile,
                        MapSet(afterResolve, symbol, scripcode),
                        "writeScrip" \notin e.faults)
                ELSE scripFile,
             fundFile |-> fund.file,
             priceFile |->
                IF fetched.some
                THEN savePriceToCache(priceFile, scripcode, fetched.d,
                        "rereadPrice" \notin e.faults,
                        "writePrice" \notin e.faults, now)
                ELSE priceFile,
             log |->
                [kind |-> "one",
                 symbol |-> symbol,
                 at |-> now,
                 faults |-> e.faults \cap
                            ({"readScrip", "readPrice"} \cup fund.io
                             \cup (IF saveMapping THEN {"writeScrip"} ELSE {})
                             \cup (IF fetched.some
                                   THEN {"rereadPrice", "writePrice"} ELSE {})),
                 searched |-> IF resolved.searched THEN {symbol} ELSE {},
                 found |-> IF resolved.searched /\ scripcode # ""
                           THEN {symbol} ELSE {},
                 priceCached |-> IF hit THEN {scripcode} ELSE {},
                 scripCached |-> {symbol} \cap DOMAIN scripcodeCache,
                 searchFailed |-> IF resolved.searched /\ symbol \notin e.found
                                  THEN {symbol} ELSE {},
                 memMapping |-> IF saveMapping
                                THEN MapSet(afterResolve, symbol, scripcode)
                                ELSE afterResolve,
                 searchCount |-> [x \in (IF resolved.searched THEN {symbol} ELSE {})
                                    |-> 1],
                 fundCount |-> [k \in fund.requested |-> 1],
                 priceCount |-> [k \in (IF scripcode # "" /\ ~hit
                                        THEN {scripcode} ELSE {}) |-> 1],
                 resolvedTo |-> symbolToScripcode,
                 fundCached |-> fund.cached,
                 fundRequested |-> fund.requested,
                 fundFetched |-> fund.requested \cap e.fundOk,
                 priceRequested |-> IF scripcode # "" /\ ~hit
                                    THEN {scripcode} ELSE {},
                 priceFetched |-> DOMAIN priceDataMap \ DOMAIN priceCache,
                 scripSaves |-> IF saveMapping THEN 1 ELSE 0,
                 fundSaves |-> fund.saves,
                 priceSaves |-> IF fetched.some THEN 1 ELSE 0,
                 raised |-> Escapes(e.faults),
                 result |-> IF Escapes(e.faults) THEN <<>>
                            ELSE <<EnrichHolding(holding, symbolToScripcode,
                                                 priceDataMap, fund.map)>>]]

----------------------------------------------------------------------------
(* SpecCalc: the pure functions applied to inputs drawn from bounded sets *)

MaxPrice == 12
MaxQty == 10
MaxInvest == 12
MaxStrLen == 2

CalcPrices ==
    {Num(v) : v \in ((0 - 1)..MaxPrice) \cup {120}} \cup {NaN, Null}
CalcInvestments == (0..MaxInvest) \cup {1000}

LTPAlphabet == {"0", "1", "2", "+", "-", " ", "x"}
LTPStrings == UNION {[1..k -> LTPAlphabet] : k \in 0..MaxStrLen}
OptLTP == {MissingStr} \cup {Str(s) : s \in LTPStrings}

PriceBodies ==
    [CurrLTP : OptLTP, HeaderLTP : {MissingStr, Str(<<"7">>), Str(<<"-">>)},
     Ason : {"ason"}]
PriceReplies == {FailedReply} \cup {OkReply(b) : b \in PriceBodies}

CalcHolding(qty, investment) ==
    [symbol |-> "HDFCBANK",
     fixed |-> [qty |-> qty, investment |-> investment],
     realtime |-> [cmp |-> Num(0), presentValue |-> Num(0), gainLoss |-> Num(0),
                   gainLossPercent |-> <<"0", "%">>, marketCap |-> 5]]

SymbolAlphabet == {"0", "5", "9", "A", "d", " ", "-", "."}
SymbolStrings == UNION {[1..k -> SymbolAlphabet] : k \in 0..(MaxStrLen + 1)}

\* the Maps a resolution can be handed: any entries for a ticker and for a
\* numeric symbol
ResolveCaches ==
    UNION {[D -> {"500180", "532174"}] : D \in SUBSET {"HDFC", "500180"}}

\* searchBSEScripcode.  The page is a sequence of pieces: a stock-page link
\* /stock-share-price/../../<digits>/ (what pattern 1 matches), a span
\* <strong>..</strong>..INE<10 digits>..<5-6 digits> (what pattern 2
\* matches), a number standing alone, or other text.
MaxTokens == 3

UrlPiece(n) == [kind |-> "url", n |-> n]
SpanPiece(n) == [kind |-> "span", n |-> n]
NumberPiece(n) == [kind |-> "number", n |-> n]
TextPiece == [kind |-> "text", n |-> <<>>]

\* String.prototype.match without the g flag: the leftmost match; 0 for null
FirstPiece(found) ==
    IF found = {} THEN 0 ELSE CHOOSE i \in found : \A j \in found : i <= j

\* /\/stock-share-price\/[^\/]+\/[^\/]+\/(\d+)\//
UrlMatch(html) == FirstPiece({i \in 1..Len(html) : html[i].kind = "url"})

\* /<strong>([^<]+)<\/strong>[^<]*INE\d{10}[^<]*?(\d{5,6})/
SpanMatch(html) == FirstPiece({i \in 1..Len(html) : html[i].kind = "span"})

\* /\b(\d{5,6})\b/: a run of 5 or 6 digits between word boundaries, in
\* whatever piece it stands
FallbackMatch(html) ==
    FirstPiece({i \in 1..Len(html) : Len(html[i].n) = 5 \/ Len(html[i].n) = 6})

\* a fallback without the range test
LikelyScripcode_Any(digits) == TRUE

\* num >= 500000 && num <= 999999, num = parseInt(digits)
LikelyScripcode(digits) ==
    CharsToNat(digits) >= 500000 /\ CharsToNat(digits) <= 999999

\* the scripcode as a digit string, <<>> for null
searchBSEScripcode(reply) ==
    IF ~reply.ok THEN <<>>
    ELSE LET html == reply.body
         IN  IF UrlMatch(html) # 0 THEN html[UrlMatch(html)].n
             ELSE IF SpanMatch(html) # 0 THEN html[SpanMatch(html)].n
             ELSE IF FallbackMatch(html) # 0
                     /\ LikelyScripcode(html[FallbackMatch(html)].n)
             THEN html[FallbackMatch(html)].n
             ELSE <<>>

SearchPieces ==
    {UrlPiece(NatToChars(n)) : n \in {7, 500180}}
        \cup {SpanPiece(NatToChars(n)) : n \in {12345, 532174}}
        \cup {NumberPiece(NatToChars(n)) :
                n \in {2024, 12345, 499999, 500000, 999999, 1000000}}
        \cup {NumberPiece(<<"0">> \o NatToChars(99999)), TextPiece}
SearchPages == UNION {[1..k -> SearchPieces] : k \in 0..MaxTokens}
SearchReplies == {FailedReply} \cup {OkReply(h) : h \in SearchPages}

\* fundamentals as the vendor mapping or the cache gives them, and as
\* portfolio.json holds them: each ratio a number or null
VendorFundamentals ==
    [scripcode : {"500180"}, pe : {Null, Num(0), Num(15)},
     pb : {Null, Num(0), Num(15)}, eps : {Null, Num(0), Num(15)}]
StaticFundamentals ==
    [peTTM : {Null, Num(20)}, priceToBook : {Null, Num(20)},
     latestEarnings : {Null, Num(7)}, debtToEquity : {Null, Num(1)}]

\* vendor fundamentals bodies: one ratio over every short string, the
\* others and the face value over the kinds of value the mapper tells apart
FaceVals ==
    {MissingStr, Str(<<>>), Str(<<"-">>), Str(<<" ">>), Str(<<"x">>),
     Str(<<"0">>), Str(<<"2">>), Str(<<"1", "x">>)}
RatioBodies ==
    [PE : OptLTP, PB : {MissingStr, Str(<<"-">>)},
     EPS : {MissingStr, Str(<<"2">>)}, FaceVal : FaceVals]

CalcInputs ==
    [op : {"realtime"}, price : CalcPrices, qty : 1..MaxQty,
     investment : CalcInvestments]
    \cup [op : {"fetchBSEData"}, reply : PriceReplies]
    \cup [op : {"isBSEScripcode"}, symbol : SymbolStrings]
    \cup [op : {"mapBSEFundamentalsResponse"}, data : RatioBodies]
    \cup [op : {"searchBSEScripcode"}, reply : SearchReplies]
    \cup [op : {"overlay"}, bse : VendorFundamentals, existing : StaticFundamentals]
    \cup [op : {"resolveBSEScripcode"}, symbol : {"HDFC", "INFY", "500180"},
          scripcodeCache : ResolveCaches, searchOk : BOOLEAN]

Pending == [done |-> FALSE]
Returned(r) == [done |-> TRUE, r |-> r]

CalcInit ==
    /\ cIn \in CalcInputs
    /\ cOut = Pending
    /\ now = 1 /\ ticks = 0
    /\ scripFile = Missing /\ priceFile = Missing /\ fundFile = Missing
    /\ stStore = "none" /\ stSaved = [some |-> FALSE] /\ stLoaded = [some |-> FALSE]
    /\ FetchIdle
    /\ AggIdle

CalcRealtime ==
    /\ cIn.op = "realtime"
    /\ ~cOut.done
    /\ cOut' = Returned(UpdateRealtime(CalcHolding(cIn.qty, cIn.investment),
                            [scripcode |-> "500180", currentPrice |-> cIn.price,
                             lastUpdated |-> "ason"]))
    /\ UNCHANGED <<cIn, now, ticks, fileVars, storeVars, fetchVars, aggVars, raceVars, pollVars>>

CalcFetchPrice ==
    /\ cIn.op = "fetchBSEData"
    /\ ~cOut.done
    /\ cOut' = Returned(fetchBSEData("500180", cIn.reply))
    /\ UNCHANGED <<cIn, now, ticks, fileVars, storeVars, fetchVars, aggVars, raceVars, pollVars>>

CalcIsScripcode ==
    /\ cIn.op = "isBSEScripcode"
    /\ ~cOut.done
    /\ cOut' = Returned(ScripcodePattern(cIn.symbol))
    /\ UNCHANGED <<cIn, now, ticks, fileVars, storeVars, fetchVars, aggVars, raceVars, pollVars>>

CalcResolve ==
    /\ cIn.op = "resolveBSEScripcode"
    /\ ~cOut.done
    /\ cOut' = Returned(resolveBSEScripcode(cIn.symbol, cIn.scripcodeCache,
                                            cIn.searchOk))
    /\ UNCHANGED <<cIn, now, ticks, fileVars, storeVars, fetchVars, aggVars, raceVars, pollVars>>

\* the fundamentals part of the holdings.map callback, for a resolved
\* holding without a price
CalcOverlay ==
    /\ cIn.op = "overlay"
    /\ ~cOut.done
    /\ cOut' = Returned(EnrichHolding(
                    [StaticHolding("HDFC", 10, 1000) EXCEPT
                        !.fundamentals = cIn.existing],
                    [x \in {"HDFC"} |-> "500180"], EmptyMap,
                    [k \in {"500180"} |-> cIn.bse]))
    /\ UNCHANGED <<cIn, now, ticks, fileVars, storeVars, fetchVars, aggVars, raceVars, pollVars>>

CalcSearch ==
    /\ cIn.op = "searchBSEScripcode"
    /\ ~cOut.done
    /\ cOut' = Returned(searchBSEScripcode(cIn.reply))
    /\ UNCHANGED <<cIn, now, ticks, fileVars, storeVars, fetchVars, aggVars, raceVars, pollVars>>

CalcMapFundamentals ==
    /\ cIn.op = "mapBSEFundamentalsResponse"
    /\ ~cOut.done
    /\ cOut' = Returned([ratios |-> mapBSEFundamentalsResponse("500180", cIn.data),
                         faceValue |-> faceValue(cIn.data)])
    /\ UNCHANGED <<cIn, now, ticks, fileVars, storeVars, fetchVars, aggVars, raceVars, pollVars>>

CalcNext ==
    \/ CalcMapFundamentals
    \/ CalcSearch
    \/ CalcOverlay
    \/ CalcRealtime
    \/ CalcFetchPrice
    \/ CalcIsScripcode
    \/ CalcResolve

SpecCalc == CalcInit /\ [][CalcNext]_vars

----------------------------------------------------------------------------
(* Reading a rendered percentage back *)

AllDigits(s) == s # <<>> /\ \A i \in 1..Len(s) : IsDigit(s[i])

\* [sign][digits].dd% read as a number of hundredths
PercentBody(s) ==
    LET a == IF s # <<>> /\ s[1] = "+" THEN Tail(s) ELSE s
    IN  IF a # <<>> /\ a[1] = "-" THEN Tail(a) ELSE a

PercentNegative(s) ==
    LET a == IF s # <<>> /\ s[1] = "+" THEN Tail(s) ELSE s
    IN  a # <<>> /\ a[1] = "-"

PercentWellFormed(s) ==
    LET b == PercentBody(s)
    IN  /\ Len(b) >= 5
        /\ b[Len(b)] = "%"
        /\ b[Len(b) - 3] = "."
        /\ AllDigits(SubSeq(b, 1, Len(b) - 4))
        /\ AllDigits(SubSeq(b, Len(b) - 2, Len(b) - 1))

PercentHundredths(s) ==
    LET b == PercentBody(s)
        h == CharsToNat(SubSeq(b, 1, Len(b) - 4)) * 100
                + CharsToNat(SubSeq(b, Len(b) - 2, Len(b) - 1))
    IN  IF PercentNegative(s) THEN 0 - h ELSE h

\* C4: with a numeric price p, presentValue = p * quantity, gainLoss =
\* presentValue - investment and, for investment > 0, gainLossPercent is
\* (gainLoss / investment) * 100 rendered with two decimals (a nearest
\* multiple of 0.01) and prefixed with "+" exactly when gainLoss >= 0.
TheoremC4 ==
    (cIn.op = "realtime" /\ cOut.done /\ IsNum(cIn.price)) =>
        LET pv == cIn.price.v * cIn.qty
            gl == pv - cIn.investment
            s == cOut.r.gainLossPercent
        IN  /\ cOut.r.presentValue = Num(pv)
            /\ cOut.r.gainLoss = Num(gl)
            /\ cIn.investment > 0 =>
                /\ PercentWellFormed(s)
                /\ (s[1] = "+") <=> (gl >= 0)
                /\ 2 * Abs(PercentHundredths(s) * cIn.investment - gl * 10000)
                        <= cIn.investment
                /\ PercentNegative(s) => gl < 0

WitnessC4 ==
    /\ cIn.op = "realtime" /\ cOut.done
    /\ cIn.price = Num(120) /\ cIn.qty = 10 /\ cIn.investment = 1000
    /\ cOut.r.presentValue = Num(1200)
    /\ cOut.r.gainLoss = Num(200)
    /\ cOut.r.gainLossPercent = <<"+", "2", "0", ".", "0", "0", "%">>

\* C5 as stated: with investment 0 and a price available, gainLossPercent is
\* exactly "0.00%", whatever the price and the quantity.
CounterC5 ==
    (cIn.op = "realtime" /\ cOut.done /\ cIn.investment = 0) =>
        cOut.r.gainLossPercent = <<"0", ".", "0", "0", "%">>

\* C5 amended: with investment 0 and a price available, gainLossPercent is
\* "+0.00%" when price * quantity >= 0 (a null price counts as 0) and
\* "0.00%" when price * quantity is negative or not a number.
TheoremC5 ==
    (cIn.op = "realtime" /\ cOut.done /\ cIn.investment = 0) =>
        cOut.r.gainLossPercent =
            IF \/ cIn.price.t = "null"
               \/ (cIn.price.t = "num" /\ cIn.price.v * cIn.qty >= 0)
            THEN <<"+", "0", ".", "0", "0", "%">>
            ELSE <<"0", ".", "0", "0", "%">>

WitnessC5 ==
    /\ cIn.op = "realtime" /\ cOut.done
    /\ cIn.investment = 0 /\ cIn.price = Num(120) /\ cIn.qty = 10
    /\ cOut.r.gainLossPercent = <<"+", "0", ".", "0", "0", "%">>

\* The price string the mapper reads: CurrRate.LTP, else Header.LTP
PriceString(body) == JSOr(body.CurrLTP, body.HeaderLTP)

\* missing, empty, the sentinel "-", sign-prefixed or otherwise unparsable
BadPriceString(x) == ~x.has \/ ~AllDigits(x.s)

\* C8 as stated: for a missing, empty, "-", sign-prefixed or unparsable
\* price string fetchOne returns absent or a record whose currentPrice is a
\* number, never NaN.
CounterC8 ==
    (cIn.op = "fetchBSEData" /\ cOut.done /\ cIn.reply.ok
        /\ BadPriceString(PriceString(cIn.reply.body))) =>
        (~cOut.r.some \/ cOut.r.d.currentPrice.t = "num")


----------------------------------------------------------------------------
(* SpecStore: save, load and the clock on one of the three stores *)

MaxTicks == 3

StoreSymbols == {"HDFCBANK", "INFY"}
StoreIds == {"500180", "500209"}

\* Records the fetchers hand to the stores
PriceRecord(id, price) ==
    [scripcode |-> id, currentPrice |-> price, lastUpdated |-> "ason"]
FundRecord(id, pe, pb) ==
    [scripcode |-> id, pe |-> pe, pb |-> pb, eps |-> Num(0)]

StorePrices == {Num(0), Num(120), NaN}

ScripMappings == UNION {[S -> StoreIds] : S \in SUBSET StoreSymbols}
PriceMappings ==
    UNION {{[k \in S |-> PriceRecord(k, f[k])] : f \in [S -> StorePrices]}
            : S \in SUBSET StoreIds}
FundMappings ==
    UNION {{[k \in S |-> FundRecord(k, f[k][1], f[k][2])]
                : f \in [S -> {Null, Num(15)} \X {Null, Num(2)}]}
            : S \in SUBSET StoreIds}

\* the steps reach both sides of both TTL boundaries
StoreSteps == {1, PRICE_CACHE_DURATION_MS - 1, CACHE_DURATION_MS - 1}

NotLoaded == [some |-> FALSE]
Loaded(readable, m) == [some |-> TRUE, readable |-> readable, m |-> m]
NotSaved == [some |-> FALSE]
Saved(m, t) == [some |-> TRUE, m |-> m, at |-> t]

StoreInit ==
    /\ stStore \in {"scripcode", "price", "fundamentals"}
    /\ scripFile \in (IF stStore = "scripcode"
                        THEN {Missing, EmptyFile, Garbage} ELSE {Missing})
    /\ priceFile \in (IF stStore = "price"
                        THEN {Missing, EmptyFile, Garbage} ELSE {Missing})
    /\ fundFile \in (IF stStore = "fundamentals"
                        THEN {Missing, EmptyFile, Garbage} ELSE {Missing})
    /\ now = 1 /\ ticks = 0
    /\ stSaved = NotSaved /\ stLoaded = NotLoaded
    /\ cIn = [op |-> "none"] /\ cOut = Pending
    /\ FetchIdle
    /\ AggIdle

StoreTick ==
    /\ ticks < MaxTicks
    /\ \E d \in StoreSteps : now' = now + d
    /\ ticks' = ticks + 1
    /\ stLoaded' = NotLoaded
    /\ UNCHANGED <<calcVars, fetchVars, aggVars, raceVars, pollVars,
                 fileVars, stStore, stSaved>>

SaveScripcode ==
    /\ stStore = "scripcode"
    /\ \E m \in ScripMappings, writable \in BOOLEAN :
        /\ scripFile' = saveScripcodeCache(scripFile, m, writable)
        /\ stSaved' = IF writable THEN Saved(m, now) ELSE stSaved
    /\ stLoaded' = NotLoaded
    /\ UNCHANGED <<calcVars, fetchVars, aggVars, raceVars, pollVars,
                 now, ticks, priceFile, fundFile, stStore>>

AddScripcode ==
    /\ stStore = "scripcode"
    /\ \E symbol \in StoreSymbols, scripcode \in StoreIds,
          readable \in BOOLEAN, writable \in BOOLEAN :
        /\ scripFile' = addScripcodeMapping(scripFile, symbol, scripcode,
                                            readable, writable)
        /\ stSaved' = IF writable
                      THEN Saved(MapSet(loadScripcodeCache(scripFile, readable),
                                        symbol, scripcode), now)
                      ELSE stSaved
    /\ stLoaded' = NotLoaded
    /\ UNCHANGED <<calcVars, fetchVars, aggVars, raceVars, pollVars,
                 now, ticks, priceFile, fundFile, stStore>>

LoadScripcode ==
    /\ stStore = "scripcode"
    /\ \E readable \in BOOLEAN :
        stLoaded' = Loaded(readable, loadScripcodeCache(scripFile, readable))
    /\ UNCHANGED <<calcVars, fetchVars, aggVars, raceVars, pollVars,
                 now, ticks, fileVars, stStore, stSaved>>

SavePrice ==
    /\ stStore = "price"
    /\ \E m \in PriceMappings, writable \in BOOLEAN :
        /\ priceFile' = savePriceCache(priceFile, m, writable, now)
        /\ stSaved' = IF writable THEN Saved(m, now) ELSE stSaved
    /\ stLoaded' = NotLoaded
    /\ UNCHANGED <<calcVars, fetchVars, aggVars, raceVars, pollVars,
                 now, ticks, scripFile, fundFile, stStore>>

SavePriceToCache ==
    /\ stStore = "price"
    /\ \E id \in StoreIds, price \in StorePrices,
          readable \in BOOLEAN, writable \in BOOLEAN :
        /\ priceFile' = savePriceToCache(priceFile, id, PriceRecord(id, price),
                                         readable, writable, now)
        /\ stSaved' = IF writable
                      THEN Saved(MapSet(loadPriceCache(priceFile, readable, now),
                                        id, PriceRecord(id, price)), now)
                      ELSE stSaved
    /\ stLoaded' = NotLoaded
    /\ UNCHANGED <<calcVars, fetchVars, aggVars, raceVars, pollVars,
                 now, ticks, scripFile, fundFile, stStore>>

LoadPrice ==
    /\ stStore = "price"
    /\ \E readable \in BOOLEAN :
        stLoaded' = Loaded(readable, loadPriceCache(priceFile, readable, now))
    /\ UNCHANGED <<calcVars, fetchVars, aggVars, raceVars, pollVars,
                 now, ticks, fileVars, stStore, stSaved>>

SaveFundamentals ==
    /\ stStore = "fundamentals"
    /\ \E m \in FundMappings, writable \in BOOLEAN :
        /\ fundFile' = saveFundamentalsCache(fundFile, m, writable, now)
        /\ stSaved' = IF writable THEN Saved(m, now) ELSE stSaved
    /\ stLoaded' = NotLoaded
    /\ UNCHANGED <<calcVars, fetchVars, aggVars, raceVars, pollVars,
                 now, ticks, scripFile, priceFile, stStore>>

LoadFundamentals ==
    /\ stStore = "fundamentals"
    /\ \E readable \in BOOLEAN :
        stLoaded' = Loaded(readable, loadFundamentalsCache(fundFile, readable, now).m)
    /\ UNCHANGED <<calcVars, fetchVars, aggVars, raceVars, pollVars,
                 now, ticks, fileVars, stStore, stSaved>>

StoreNext ==
    \/ StoreTick
    \/ SaveScripcode
    \/ AddScripcode
    \/ LoadScripcode
    \/ SavePrice
    \/ SavePriceToCache
    \/ LoadPrice
    \/ SaveFundamentals
    \/ LoadFundamentals

SpecStore == StoreInit /\ [][StoreNext]_vars

\* the TTL of the store under test (none for the scripcode store)
StoreDuration ==
    IF stStore = "price" THEN PRICE_CACHE_DURATION_MS ELSE CACHE_DURATION_MS

\* a load that read the file, after a successful save
LoadAfterSave == stLoaded.some /\ stLoaded.readable /\ stSaved.some

\* C6: in the price and the fundamentals store, an entry written by save at
\* time t is returned by load at t + duration - 1 and at every earlier time,
\* and is not returned at t + duration, at t + duration + 1 or later.
TheoremC6 ==
    (LoadAfterSave /\ stStore \in {"price", "fundamentals"}) =>
        \A k \in DOMAIN stSaved.m :
            /\ (now - stSaved.at <= StoreDuration - 1) => k \in DOMAIN stLoaded.m
            /\ (now - stSaved.at >= StoreDuration) => k \notin DOMAIN stLoaded.m

\* a price entry saved at t is missing from a load at exactly t + 2 minutes
WitnessC6 ==
    /\ LoadAfterSave /\ stStore = "price"
    /\ now - stSaved.at = PRICE_CACHE_DURATION_MS
    /\ DOMAIN stSaved.m # {}
    /\ DOMAIN stLoaded.m = {}

\* C7 as stated: save(m) followed by a load before the TTL elapses returns
\* exactly the keys of m, each with the value of m.
CounterC7 ==
    (LoadAfterSave /\ (stStore = "scripcode" \/ now - stSaved.at < StoreDuration)) =>
        /\ DOMAIN stLoaded.m = DOMAIN stSaved.m
        /\ \A k \in DOMAIN stSaved.m : stLoaded.m[k] = stSaved.m[k]


----------------------------------------------------------------------------
(* SpecFetch: one fetchMany call, request by request *)

MaxN == 25
MaxFail == 1
MaxFree == 4

\* how many requests of one call may fail: any number in a short list
FailBudget(n) == IF n <= MaxFree THEN n ELSE MaxFail

SetMin(S) == CHOOSE x \in S : \A y \in S : x <= y
SetMax(S) == CHOOSE x \in S : \A y \in S : x >= y

\* the vendor's body for the request at list position pos
PriceBodyAt(pos) ==
    [CurrLTP |-> Str(<<"1", "2", "0">>), HeaderLTP |-> MissingStr, Ason |-> pos]
FundBodyAt(pos) ==
    [PE |-> Str(<<"1", "5">>), PB |-> Str(<<"-">>), EPS |-> Str(NatToChars(pos))]

\* fetchBSEData / fetchBSEFundamentals for the request at position pos
FetchOneAt(kind, scripcode, pos, ok) ==
    IF kind = "price"
    THEN fetchBSEData(scripcode, IF ok THEN OkReply(PriceBodyAt(pos)) ELSE FailedReply)
    ELSE fetchBSEFundamentals(scripcode,
                              IF ok THEN OkReply(FundBodyAt(pos)) ELSE FailedReply)

\* a promise of the batch that rejected
Thrown == [some |-> FALSE, threw |-> TRUE]

\* the async wrapper of one batch item: try { await fetchOne } catch { null }
BatchItem(settled) == IF settled = Thrown THEN NoData ELSE settled

\* batchResults.forEach(({ scripcode, data }) => { if (data) results.set(...) })
RECURSIVE ApplyBatch_Delete(_, _, _, _, _)
ApplyBatch_Delete(results, list, batch, from, to) ==
    IF from > to THEN results
    ELSE ApplyBatch_Delete(
            IF batch[from].some THEN MapSet(results, list[from], batch[from].d)
            ELSE [k \in DOMAIN results \ {list[from]} |-> results[k]],
            list, batch, from + 1, to)

RECURSIVE ApplyBatch(_, _, _, _, _)
ApplyBatch(results, list, batch, from, to) ==
    IF from > to THEN results
    ELSE ApplyBatch(
            IF batch[from].some THEN MapSet(results, list[from], batch[from].d)
            ELSE results,
            list, batch, from + 1, to)

Failures == Cardinality({q \in DOMAIN fmLog.settled : ~fmLog.settled[q]})

FetchInit ==
    /\ fmKind \in {"price", "fundamentals"}
    /\ \E n \in 0..MaxN, dup \in BOOLEAN :
        fmList = [q \in 1..n |-> IF dup /\ q = n /\ n > 1 THEN 1 ELSE q]
    /\ fmPc = "start" /\ fmI = 0
    /\ fmPending = {} /\ fmBatch = <<>> /\ fmResults = <<>>
    /\ fmLog = [settled |-> <<>>, batches |-> 0, delays |-> 0, raised |-> FALSE]
    /\ cIn = [op |-> "none"] /\ cOut = Pending
    /\ now = 1 /\ ticks = 0
    /\ scripFile = Missing /\ priceFile = Missing /\ fundFile = Missing
    /\ stStore = "none" /\ stSaved = NotSaved /\ stLoaded = NotLoaded
    /\ AggIdle

fetchFrame == <<calcVars, now, ticks, fileVars, storeVars, aggVars, raceVars, pollVars,
               fmKind, fmList>>

\* if (scripcodes.length === 0) return results
FmCall ==
    /\ fmPc = "start"
    /\ fmPc' = IF Len(fmList) = 0 THEN "done" ELSE "loop"
    /\ UNCHANGED <<fetchFrame, fmI, fmPending, fmBatch, fmResults, fmLog>>

\* a loop without slicing: every remaining request is started at once
FmIssueBatch_All ==
    /\ fmPc = "loop" /\ fmI < Len(fmList)
    /\ fmPending' = {q \in 1..Len(fmList) : fmI < q}
    /\ fmBatch' = <<>>
    /\ fmLog' = [fmLog EXCEPT !.batches = @ + 1]
    /\ fmPc' = "await"
    /\ UNCHANGED <<fetchFrame, fmI, fmResults>>

\* for (...; i < scripcodes.length; ...): slice the batch, start its requests
FmIssueBatch ==
    /\ fmPc = "loop" /\ fmI < Len(fmList)
    /\ fmPending' = {q \in 1..Len(fmList) : fmI < q /\ q <= fmI + BATCH_SIZE}
    /\ fmBatch' = <<>>
    /\ fmLog' = [fmLog EXCEPT !.batches = @ + 1]
    /\ fmPc' = "await"
    /\ UNCHANGED <<fetchFrame, fmI, fmResults>>

FmLoopExit ==
    /\ fmPc = "loop" /\ fmI >= Len(fmList)
    /\ fmPc' = "done"
    /\ UNCHANGED <<fetchFrame, fmI, fmPending, fmBatch, fmResults, fmLog>>

\* one request of the batch settles (the first or the last still in flight)
FmSettle ==
    /\ fmPc = "await" /\ fmPending # {}
    /\ \E q \in {SetMin(fmPending), SetMax(fmPending)}, ok \in BOOLEAN :
        /\ ok \/ Failures < FailBudget(Len(fmList))
        /\ fmPending' = fmPending \ {q}
        /\ fmBatch' = MapSet(fmBatch, q, BatchItem(FetchOneAt(fmKind, fmList[q], q, ok)))
        /\ fmLog' = [fmLog EXCEPT !.settled = MapSet(@, q, ok)]
    /\ UNCHANGED <<fetchFrame, fmPc, fmI, fmResults>>

\* FmCollect with the delay also after the final batch
FmCollect_AlwaysDelay ==
    /\ fmPc = "await" /\ fmPending = {}
    /\ IF \E q \in DOMAIN fmBatch : fmBatch[q] = Thrown
       THEN /\ fmLog' = [fmLog EXCEPT !.raised = TRUE]
            /\ fmPc' = "done"
            /\ UNCHANGED <<fmI, fmResults>>
       ELSE /\ fmResults' = ApplyBatch(fmResults, fmList, fmBatch,
                                       SetMin(DOMAIN fmBatch), SetMax(DOMAIN fmBatch))
            /\ fmPc' = "delay" /\ fmI' = fmI
            /\ fmLog' = fmLog
    /\ fmBatch' = <<>>
    /\ UNCHANGED <<fetchFrame, fmPending>>

\* await Promise.all(batchPromises), merge, then delay or next iteration
FmCollect ==
    /\ fmPc = "await" /\ fmPending = {}
    /\ IF \E q \in DOMAIN fmBatch : fmBatch[q] = Thrown
       THEN /\ fmLog' = [fmLog EXCEPT !.raised = TRUE]
            /\ fmPc' = "done"
            /\ UNCHANGED <<fmI, fmResults>>
       ELSE /\ fmResults' = ApplyBatch(fmResults, fmList, fmBatch,
                                       SetMin(DOMAIN fmBatch), SetMax(DOMAIN fmBatch))
            /\ IF fmI + BATCH_SIZE < Len(fmList)
               THEN fmPc' = "delay" /\ fmI' = fmI
               ELSE fmPc' = "loop" /\ fmI' = fmI + BATCH_SIZE
            /\ fmLog' = fmLog
    /\ fmBatch' = <<>>
    /\ UNCHANGED <<fetchFrame, fmPending>>

\* the BATCH_DELAY_MS timer fires
FmDelay ==
    /\ fmPc = "delay"
    /\ fmLog' = [fmLog EXCEPT !.delays = @ + 1]
    /\ fmI' = fmI + BATCH_SIZE
    /\ fmPc' = "loop"
    /\ UNCHANGED <<fetchFrame, fmPending, fmBatch, fmResults>>

\* getPortfolioWithRealtimeData: the fundamentals call has been awaited
\* (line 143); fetchMultipleBSEData is called next (line 162)
FmThenPrices ==
    /\ fmKind = "fundamentals" /\ fmPc = "done" /\ ~fmLog.raised
    /\ fmKind' = "price"
    /\ fmPc' = "start" /\ fmI' = 0
    /\ fmResults' = <<>>
    /\ fmLog' = [settled |-> <<>>, batches |-> 0, delays |-> 0, raised |-> FALSE]
    /\ UNCHANGED <<calcVars, now, ticks, fileVars, storeVars, aggVars, raceVars, pollVars,
                   fmList, fmPending, fmBatch>>

FetchNext ==
    \/ FmThenPrices
    \/ FmCall
    \/ FmIssueBatch
    \/ FmLoopExit
    \/ FmSettle
    \/ FmCollect
    \/ FmDelay

SpecFetch == FetchInit /\ [][FetchNext]_vars

\* positions whose batch has been merged into results
Merged ==
    {q \in DOMAIN fmLog.settled :
        q <= (IF fmPc = "delay" THEN fmI + BATCH_SIZE ELSE fmI)}

\* the last position at or before `upto` whose fetch of `id` succeeded
LastOk(id) ==
    SetMax({q \in Merged : fmList[q] = id /\ fmLog.settled[q]})

ExpectedRecord(id, q) ==
    IF fmKind = "price"
    THEN [scripcode |-> id, currentPrice |-> Num(120), lastUpdated |-> q]
    ELSE [scripcode |-> id, pe |-> Num(15), pb |-> Null, eps |-> Num(q)]

\* C10: at every moment of a fetchMany call the results hold exactly the
\* identifiers with a successful fetch among the merged batches, each with
\* the record of its own (latest) successful fetch, whatever failed around
\* it, and the call has not raised.
TheoremC10 ==
    (fmPc # "idle") =>
        /\ ~fmLog.raised
        /\ DOMAIN fmResults = {fmList[q] : q \in {r \in Merged : fmLog.settled[r]}}
        /\ \A id \in DOMAIN fmResults : fmResults[id] = ExpectedRecord(id, LastOk(id))

\* a call over three batches returned with one failed fetch in the first
\* batch and every other identifier in the results
WitnessC10 ==
    /\ fmPc = "done"
    /\ Len(fmList) > 2 * BATCH_SIZE
    /\ \E a \in 1..BATCH_SIZE :
        /\ ~fmLog.settled[a]
        /\ fmList[a] \notin DOMAIN fmResults
    /\ Cardinality(DOMAIN fmResults) = Len(fmList) - 1

\* ceil(n / 10)
BatchesFor(n) == (n + 9) \div 10

\* the list positions of batch number b (1-based): ten in list order, fewer
\* in the final batch
BatchPositions(b) ==
    {q \in 1..Len(fmList) : 10 * (b - 1) < q /\ q <= 10 * b}

\* C12: a fetchMany call over n identifiers issues its requests in
\* ceil(n/10) batches of at most 10 identifiers in list order, waits the delay
\* after every batch but the final one (ceil(n/10) - 1 delays for n > 0), and
\* for n = 0 issues nothing and waits for nothing.
TheoremC12 ==
    /\ fmPc = "await" =>
        /\ fmPending \cup DOMAIN fmBatch = BatchPositions(fmLog.batches)
        /\ Cardinality(BatchPositions(fmLog.batches)) \in 1..10
        /\ fmLog.delays = fmLog.batches - 1
    /\ fmPc = "delay" =>
        /\ fmLog.delays = fmLog.batches - 1
        /\ fmLog.batches < BatchesFor(Len(fmList))
    /\ fmPc = "done" =>
        /\ fmLog.batches = BatchesFor(Len(fmList))
        /\ fmLog.delays = IF Len(fmList) = 0 THEN 0 ELSE BatchesFor(Len(fmList)) - 1
        /\ DOMAIN fmLog.settled = 1..Len(fmList)

\* a call over 25 identifiers returned after 3 batches and 2 delays
WitnessC12 ==
    /\ fmPc = "done"
    /\ Len(fmList) = 25
    /\ fmLog.batches = 3
    /\ fmLog.delays = 2

----------------------------------------------------------------------------
(* Spec: aggregation calls on the three cache files, and the clock *)

MaxCalls == 2
MaxAggTicks == 2
MaxFailures == 1

\* the symbols aggregateOne is asked for: those held and one that is not
AskedSymbols == {"HDFC", "INFY", "500180", "TCS"}

SearchedSymbols == {"HDFC", "INFY"}
Scripcodes == {"500180", "500209"}

\* what can fail during one call: a file operation, or a vendor request
AllFailures ==
    {<<"io", op>> : op \in IoOps} \cup {<<"search", x>> : x \in SearchedSymbols}
        \cup {<<"fund", k>> : k \in Scripcodes}
        \cup {<<"price", k>> : k \in Scripcodes}

\* at most MaxFailures things fail, or every file operation does, or every
\* vendor request does, or everything does
FailureSets ==
    {X \in SUBSET AllFailures : Cardinality(X) <= MaxFailures}
        \cup {AllFailures,
              {x \in AllFailures : x[1] = "io"},
              {x \in AllFailures : x[1] # "io"}}

Env(X) ==
    [faults |-> {op \in IoOps : <<"io", op>> \in X},
     found |-> {x \in SearchedSymbols : <<"search", x>> \notin X},
     fundOk |-> {k \in Scripcodes : <<"fund", k>> \notin X},
     priceOk |-> {k \in Scripcodes : <<"price", k>> \notin X}]

AggSteps == {PRICE_CACHE_DURATION_MS \div 2, CACHE_DURATION_MS \div 2}

\* what the vendor served for a scripcode at time t
PriceAt(k, t) == fetchBSEData(k, OkReply(VendorPriceBody(t))).d
FundOf(k) == fetchBSEFundamentals(k, OkReply(VendorFundBody)).d

\* the cache files a process may find when it starts at time 1
InitScripFiles ==
    {Missing, Doc([x \in {"HDFC", "INFY"} |-> VendorScripcode(x)])}
InitPriceFiles ==
    {Missing, savePriceCache(Missing, [k \in {"500180"} |-> PriceAt(k, 1)], TRUE, 1)}
InitFundFiles ==
    {Missing,
     saveFundamentalsCache(Missing, [k \in {"500180"} |-> FundOf(k)], TRUE, 1)}

\* every request of the call was answered and no file operation failed
Clean(log) ==
    /\ log.faults = {}
    /\ log.found = log.searched
    /\ log.fundFetched = log.fundRequested
    /\ log.priceFetched = log.priceRequested

Summary(log) ==
    IF log.kind = "none" THEN NoPrev
    ELSE [kind |-> log.kind, at |-> log.at, clean |-> Clean(log),
          searchFailed |-> log.searchFailed, fundFetched |-> log.fundFetched]

Init ==
    /\ holdings \in Portfolios
    /\ last = NoCall /\ prev = NoPrev /\ calls = 0
    /\ RaceIdle /\ PollIdle
    /\ now = 1 /\ ticks = 0
    /\ scripFile \in InitScripFiles
    /\ priceFile \in InitPriceFiles
    /\ fundFile \in InitFundFiles
    /\ cIn = [op |-> "none"] /\ cOut = Pending
    /\ stStore = "none" /\ stSaved = NotSaved /\ stLoaded = NotLoaded
    /\ FetchIdle

\* GET /api/portfolio
AggregateAll ==
    /\ calls < MaxCalls
    /\ \E X \in FailureSets :
        \E r \in {getPortfolioWithRealtimeData(Env(X))} :
            /\ scripFile' = r.scripFile
            /\ priceFile' = r.priceFile
            /\ fundFile' = r.fundFile
            /\ last' = r.log
    /\ prev' = Summary(last)
    /\ calls' = calls + 1
    /\ UNCHANGED <<holdings, now, ticks, calcVars, storeVars, fetchVars, raceVars, pollVars>>

\* GET /api/portfolio/[symbol]
AggregateOne ==
    /\ calls < MaxCalls
    /\ \E symbol \in AskedSymbols, X \in FailureSets :
        \E r \in {getHoldingWithRealtimeData(symbol, Env(X))} :
            /\ scripFile' = r.scripFile
            /\ priceFile' = r.priceFile
            /\ fundFile' = r.fundFile
            /\ last' = r.log
    /\ prev' = Summary(last)
    /\ calls' = calls + 1
    /\ UNCHANGED <<holdings, now, ticks, calcVars, storeVars, fetchVars, raceVars, pollVars>>

Tick ==
    /\ ticks < MaxAggTicks
    /\ \E d \in AggSteps : now' = now + d
    /\ ticks' = ticks + 1
    /\ UNCHANGED <<fileVars, aggVars, raceVars, pollVars, calcVars, storeVars, fetchVars>>

Next == AggregateAll \/ AggregateOne \/ Tick

Spec == Init /\ [][Next]_vars

\* C2 as stated: an aggregateAll call that resolved a symbol through the
\* vendor search writes the scripcode store exactly once and leaves every such
\* symbol persisted with the identifier the search returned (here for calls
\* in which no file operation failed).
CounterC2 ==
    (last.kind = "all" /\ last.faults = {} /\ last.found # {}) =>
        /\ last.scripSaves = 1
        /\ scripFile.kind = "doc"
        /\ \A x \in last.found :
            x \in DOMAIN scripFile.doc /\ scripFile.doc[x] = last.resolvedTo[x]

\* C3 as stated: when an aggregateAll call takes some prices from the cache
\* and fetches others, the price document it writes holds the cached entries
\* and the fetched ones (here for calls in which no file operation failed).
CounterC3 ==
    (last.kind = "all" /\ last.faults = {}
        /\ last.priceCached # {} /\ last.priceFetched # {}) =>
        /\ priceFile.kind = "doc"
        /\ (last.priceCached \cup last.priceFetched) \subseteq DOMAIN priceFile.doc

\* C1 as stated: an aggregateAll call that follows, within less than the
\* price TTL, an aggregateAll call whose requests and file operations all
\* succeeded issues no search, no price request and no fundamentals request
\* (here for second calls in which no file operation failed).
CounterC1 ==
    (last.kind = "all" /\ last.faults = {}
        /\ prev.kind = "all" /\ prev.clean
        /\ last.at - prev.at < PRICE_CACHE_DURATION_MS) =>
        /\ last.searched = {}
        /\ last.priceRequested = {}
        /\ last.fundRequested = {}

----------------------------------------------------------------------------
(* SpecAnyFailure: one aggregateAll call under every combination of failures *)

\* the failures that can touch a getPortfolioWithRealtimeData call
CallFailures == AllFailures \ {<<"io", "rereadPrice">>}

AnyInit ==
    /\ holdings \in Portfolios
    /\ last = NoCall /\ prev = NoPrev /\ calls = 0
    /\ RaceIdle /\ PollIdle
    /\ now = 1 /\ ticks = 0
    /\ scripFile \in InitScripFiles \cup {Garbage}
    /\ priceFile \in InitPriceFiles \cup {Garbage}
    /\ fundFile \in InitFundFiles
    /\ cIn = [op |-> "none"] /\ cOut = Pending
    /\ stStore = "none" /\ stSaved = NotSaved /\ stLoaded = NotLoaded
    /\ FetchIdle

AnyAggregateAll ==
    /\ last = NoCall
    /\ \E X \in SUBSET CallFailures :
        \E r \in {getPortfolioWithRealtimeData(Env(X))} :
            /\ scripFile' = r.scripFile
            /\ priceFile' = r.priceFile
            /\ fundFile' = r.fundFile
            /\ last' = r.log
    /\ prev' = Summary(last)
    /\ calls' = calls + 1
    /\ UNCHANGED <<holdings, now, ticks, calcVars, storeVars, fetchVars, raceVars, pollVars>>

AnyNext == AnyAggregateAll

SpecAnyFailure == AnyInit /\ [][AnyNext]_vars

\* C9: whatever fails, aggregateAll raises nothing and returns one record
\* per static holding, in the order of the static holdings, the record at
\* each position carrying the symbol of the holding at that position.
TheoremC9 ==
    last.kind = "all" =>
        /\ ~last.raised
        /\ Len(last.result) = Len(holdings)
        /\ \A i \in 1..Len(holdings) : last.result[i].symbol = holdings[i].symbol

\* a call in which a file read, a file write, a search, a price fetch and a
\* fundamentals fetch failed, and which returned three records
WitnessC9 ==
    /\ last.kind = "all"
    /\ \E r \in {"readScrip", "readPrice", "readFund"} : r \in last.faults
    /\ \E w \in {"writeScrip", "writePrice", "writeFund"} : w \in last.faults
    /\ last.searched \ last.found # {}
    /\ last.priceRequested \ last.priceFetched # {}
    /\ last.fundRequested \ last.fundFetched # {}
    /\ Len(last.result) = 3

\* the identifiers for which a call had a price, or fundamentals: taken from
\* the cache it loaded or fetched by it
PriceAvailable == last.priceCached \cup last.priceFetched
FundAvailable == last.fundCached \cup last.fundFetched
Unresolved(h) == h.symbol \notin DOMAIN last.resolvedTo
NoPrice(h) == ~Unresolved(h) /\ last.resolvedTo[h.symbol] \notin PriceAvailable
NoFundamentals(h) == ~Unresolved(h) /\ last.resolvedTo[h.symbol] \notin FundAvailable

\* C11: aggregateAll returns an unresolved holding with its static realtime
\* and fundamentals blocks, a resolved holding without a price with its static
\* realtime block, and a resolved holding without fundamentals with its static
\* fundamentals block.
TheoremC11 ==
    last.kind = "all" =>
        \A i \in 1..Len(holdings) :
            /\ Unresolved(holdings[i]) =>
                /\ last.result[i].realtime = holdings[i].realtime
                /\ last.result[i].fundamentals = holdings[i].fundamentals
            /\ NoPrice(holdings[i]) =>
                last.result[i].realtime = holdings[i].realtime
            /\ NoFundamentals(holdings[i]) =>
                last.result[i].fundamentals = holdings[i].fundamentals

\* one call returned an unresolved holding, a resolved holding that has new
\* fundamentals but no price, and a resolved holding that has a new price
\* but no fundamentals
WitnessC11 ==
    /\ last.kind = "all"
    /\ \E i, j, k \in 1..Len(holdings) :
        /\ Unresolved(holdings[i])
        /\ NoPrice(holdings[j])
        /\ last.result[j].fundamentals # holdings[j].fundamentals
        /\ NoFundamentals(holdings[k])
        /\ last.result[k].realtime # holdings[k].realtime

\* the identifiers a call resolved its symbols to
ResolvedIds == {last.resolvedTo[x] : x \in DOMAIN last.resolvedTo}

\* C13: one aggregateAll call searches only distinct non-numeric symbols
\* absent from the mapping it loaded, requests fundamentals and prices only
\* for distinct resolved identifiers absent from the fundamentals and price
\* caches it loaded, and issues each such request once, failed or not.
TheoremC13 ==
    last.kind = "all" =>
        /\ last.searched \subseteq
                {x \in UniqueSymbols : ~isBSEScripcode(x)} \ last.scripCached
        /\ \A x \in last.searched : last.searchCount[x] = 1
        /\ last.fundRequested \subseteq ResolvedIds \ last.fundCached
        /\ \A k \in last.fundRequested : last.fundCount[k] = 1
        /\ last.priceRequested \subseteq ResolvedIds \ last.priceCached
        /\ \A k \in last.priceRequested : last.priceCount[k] = 1

\* a call in which the search for a symbol held by two holdings failed, and
\* a price request and a fundamentals request failed, while the caches
\* covered nothing
WitnessC13 ==
    /\ last.kind = "all"
    /\ \E x \in last.searched \ last.found : SymbolCalls_PerHolding(x) = 2
    /\ last.priceRequested \ last.priceFetched # {}
    /\ last.fundRequested \ last.fundFetched # {}

----------------------------------------------------------------------------
(* SpecResolve: two successive aggregation calls under every combination of
   scripcode-file and symbol-search failures *)

ResolveFailures ==
    {<<"io", "readScrip">>, <<"io", "writeScrip">>}
        \cup {<<"search", x>> : x \in SearchedSymbols}

ResolveInit ==
    /\ holdings \in Portfolios
    /\ last = NoCall /\ prev = NoPrev /\ calls = 0
    /\ RaceIdle /\ PollIdle
    /\ now = 1 /\ ticks = 0
    /\ scripFile \in InitScripFiles \cup {Garbage}
    /\ priceFile = Missing
    /\ fundFile = Missing
    /\ cIn = [op |-> "none"] /\ cOut = Pending
    /\ stStore = "none" /\ stSaved = NotSaved /\ stLoaded = NotLoaded
    /\ FetchIdle

\* the first or the second aggregateAll of the behaviour
ResolveAll ==
    /\ prev = NoPrev
    /\ \E X \in SUBSET ResolveFailures :
        \E r \in {getPortfolioWithRealtimeData(Env(X))} :
            /\ scripFile' = r.scripFile
            /\ priceFile' = r.priceFile
            /\ fundFile' = r.fundFile
            /\ last' = r.log
    /\ prev' = Summary(last)
    /\ calls' = calls + 1
    /\ UNCHANGED <<holdings, now, ticks, calcVars, storeVars, fetchVars, raceVars, pollVars>>

\* the first or the second aggregateOne of the behaviour
ResolveOne ==
    /\ prev = NoPrev
    /\ \E symbol \in AskedSymbols, X \in SUBSET ResolveFailures :
        \E r \in {getHoldingWithRealtimeData(symbol, Env(X))} :
            /\ scripFile' = r.scripFile
            /\ priceFile' = r.priceFile
            /\ fundFile' = r.fundFile
            /\ last' = r.log
    /\ prev' = Summary(last)
    /\ calls' = calls + 1
    /\ UNCHANGED <<holdings, now, ticks, calcVars, storeVars, fetchVars, raceVars, pollVars>>

ResolveNext == ResolveAll \/ ResolveOne

SpecResolve == ResolveInit /\ [][ResolveNext]_vars

\* what a call logged about its resolutions: every symbol whose own search
\* did not fail is resolved (a numeric symbol to itself, a searched one to the
\* identifier the vendor returned), and a symbol whose search failed is
\* unresolved and has no entry in the call's in-memory mapping
ResolutionIsolated(log) ==
    /\ \A y \in UniqueSymbols \ log.searchFailed :
        /\ y \in DOMAIN log.resolvedTo
        /\ isBSEScripcode(y) => log.resolvedTo[y] = y
        /\ y \in log.found => log.resolvedTo[y] = VendorScripcode(y)
    /\ \A x \in log.searchFailed :
        /\ x \notin DOMAIN log.resolvedTo
        /\ x \notin DOMAIN log.memMapping

\* the call that has just run needs symbol x
NeedsSymbol(log, x) ==
    log.kind = "all" \/ (log.kind = "one" /\ log.symbol = x)

\* a step that is an aggregateAll call leaves no persisted entry for a symbol
\* whose search failed in it, other than one the file already held
NoEntryAdded ==
    \A x \in last'.searchFailed :
        (scripFile'.kind = "doc" /\ x \in DOMAIN scripFile'.doc) =>
            /\ scripFile.kind = "doc"
            /\ x \in DOMAIN scripFile.doc
            /\ scripFile'.doc[x] = scripFile.doc[x]

\* C14 as stated: a failed symbol search leaves every other symbol of the
\* same aggregateAll call resolved, adds no entry for the failed symbol to the
\* in-memory or the persisted mapping, and the next aggregation call that
\* needs the symbol searches for it again.
CounterC14 ==
    [][(calls' = calls + 1) =>
        /\ last'.kind = "all" => (ResolutionIsolated(last') /\ NoEntryAdded)
        /\ last.kind # "none" =>
            \A x \in last.searchFailed : NeedsSymbol(last', x) => x \in last'.searched
      ]_vars

\* C14, amended: as stated, except that the next call searches again only if
\* the failing call had read the scripcode file (a symbol searched because the
\* file could not be read may be found in the file by the next call).
TheoremC14 ==
    [][(calls' = calls + 1) =>
        /\ last'.kind = "all" => (ResolutionIsolated(last') /\ NoEntryAdded)
        /\ (last.kind # "none" /\ "readScrip" \notin last.faults) =>
            \A x \in last.searchFailed : NeedsSymbol(last', x) => x \in last'.searched
      ]_vars

\* a second aggregateAll searched again, and again in vain, for a symbol whose
\* search had failed in the call before, while it found another symbol; the
\* failed symbol is in neither mapping
WitnessC14 ==
    /\ last.kind = "all" /\ prev.kind = "all"
    /\ \E x \in prev.searchFailed :
        /\ x \in last.searchFailed
        /\ last.found # {}
        /\ x \notin DOMAIN last.memMapping
        /\ scripFile.kind = "doc" => x \notin DOMAIN scripFile.doc

(* C15: the identifier test and the two short cuts of the resolver *)

DecimalDigits == {"0", "1", "2", "3", "4", "5", "6", "7", "8", "9"}

NonEmptyAllDigit(s) == Len(s) > 0 /\ \A i \in 1..Len(s) : s[i] \in DecimalDigits

\* C15: isBSEScripcode is true exactly for the non-empty strings made of
\* decimal digits only; resolving such a symbol gives the symbol itself
\* whatever the scripcode Map holds for it and without a search; resolving a
\* non-numeric symbol that the Map holds gives the Map's identifier without
\* a search
TheoremC15 ==
    cOut.done =>
        /\ cIn.op = "isBSEScripcode" =>
                (cOut.r <=> NonEmptyAllDigit(cIn.symbol))
        /\ (cIn.op = "resolveBSEScripcode"
                /\ NonEmptyAllDigit(SymbolChars(cIn.symbol))) =>
                cOut.r = [scripcode |-> cIn.symbol, searched |-> FALSE]
        /\ (cIn.op = "resolveBSEScripcode"
                /\ ~NonEmptyAllDigit(SymbolChars(cIn.symbol))
                /\ cIn.symbol \in DOMAIN cIn.scripcodeCache) =>
                cOut.r = [scripcode |-> cIn.scripcodeCache[cIn.symbol],
                          searched |-> FALSE]

\* a numeric symbol was resolved while the Map held another identifier for it
WitnessC15 ==
    /\ cOut.done
    /\ cIn.op = "resolveBSEScripcode"
    /\ cIn.symbol = "500180"
    /\ "500180" \in DOMAIN cIn.scripcodeCache
    /\ cIn.scripcodeCache["500180"] = "532174"
    /\ cOut.r.scripcode = "500180"

-----------------------------------------------------------------------------
(* SpecLoad: one aggregation call on cache files that are missing, blank,  *)
(* unparsable or unreadable; the vendor answers every request              *)

LoadFailures ==
    {<<"io", op>> : op \in {"readScrip", "readPrice", "rereadPrice", "readFund"}}

LoadInit ==
    /\ holdings \in Portfolios
    /\ last = NoCall /\ prev = NoPrev /\ calls = 0
    /\ RaceIdle /\ PollIdle
    /\ now = 1 /\ ticks = 0
    /\ scripFile \in InitScripFiles \cup {EmptyFile, Garbage}
    /\ priceFile \in InitPriceFiles \cup {EmptyFile, Garbage}
    /\ fundFile \in InitFundFiles \cup {EmptyFile, Garbage}
    /\ cIn = [op |-> "none"] /\ cOut = Pending
    /\ stStore = "none" /\ stSaved = NotSaved /\ stLoaded = NotLoaded
    /\ FetchIdle

LoadAggregateAll ==
    /\ last = NoCall
    /\ \E X \in SUBSET LoadFailures :
        \E r \in {getPortfolioWithRealtimeData(Env(X))} :
            /\ scripFile' = r.scripFile
            /\ priceFile' = r.priceFile
            /\ fundFile' = r.fundFile
            /\ last' = r.log
    /\ prev' = Summary(last)
    /\ calls' = calls + 1
    /\ UNCHANGED <<holdings, now, ticks, calcVars, storeVars, fetchVars, raceVars, pollVars>>

LoadAggregateOne ==
    /\ last = NoCall
    /\ \E symbol \in AskedSymbols, X \in SUBSET LoadFailures :
        \E r \in {getHoldingWithRealtimeData(symbol, Env(X))} :
            /\ scripFile' = r.scripFile
            /\ priceFile' = r.priceFile
            /\ fundFile' = r.fundFile
            /\ last' = r.log
    /\ prev' = Summary(last)
    /\ calls' = calls + 1
    /\ UNCHANGED <<holdings, now, ticks, calcVars, storeVars, fetchVars, raceVars, pollVars>>

LoadNext == LoadAggregateAll \/ LoadAggregateOne

SpecLoad == LoadInit /\ [][LoadNext]_vars

\* the symbols a call resolves and the identifiers it resolved them to
NeededSymbols(log) == {x \in UniqueSymbols : NeedsSymbol(log, x)}
ResolvedTo(log) == {log.resolvedTo[x] : x \in DOMAIN log.resolvedTo}

\* C16: a call never raises because of a cache file; a scripcode file that
\* is missing, blank, unparsable or unreadable serves no symbol, so every
\* non-numeric symbol of the call is searched; a price file in one of these
\* conditions serves no price, so the price of every resolved identifier is
\* requested; a fundamentals file in one of these conditions serves no
\* record, so the fundamentals of every resolved identifier are requested
TheoremC16 ==
    [][(calls' = calls + 1) =>
        /\ ~last'.raised
        /\ (scripFile.kind # "doc" \/ "readScrip" \in last'.faults) =>
                /\ last'.scripCached = {}
                /\ last'.searched =
                        {x \in NeededSymbols(last') : ~NonEmptyAllDigit(SymbolChars(x))}
        /\ (priceFile.kind # "doc" \/ "readPrice" \in last'.faults) =>
                /\ last'.priceCached = {}
                /\ last'.priceRequested = ResolvedTo(last')
        /\ (fundFile.kind # "doc" \/ "readFund" \in last'.faults) =>
                /\ last'.fundCached = {}
                /\ last'.fundRequested = ResolvedTo(last')
      ]_vars

\* a call could read none of the three files, searched, and requested prices
\* and fundamentals, and returned the holdings
WitnessC16 ==
    /\ last.kind = "all"
    /\ {"readScrip", "readPrice", "readFund"} \subseteq last.faults
    /\ ~last.raised
    /\ last.searched # {}
    /\ last.priceRequested # {}
    /\ last.fundRequested # {}
    /\ Len(last.result) = Len(holdings)

-----------------------------------------------------------------------------
(* SpecWrite: one aggregation call in which cache writes and vendor        *)
(* requests may fail                                                       *)

WriteOps == {"writeScrip", "writePrice", "writeFund"}

WriteFailures == AllFailures \ {<<"io", op>> : op \in IoOps \ WriteOps}

WriteInit ==
    /\ holdings \in Portfolios
    /\ last = NoCall /\ prev = NoPrev /\ calls = 0
    /\ RaceIdle /\ PollIdle
    /\ now = 1 /\ ticks = 0
    /\ scripFile \in InitScripFiles
    /\ priceFile \in InitPriceFiles
    /\ fundFile \in InitFundFiles
    /\ cIn = [op |-> "none"] /\ cOut = Pending
    /\ stStore = "none" /\ stSaved = NotSaved /\ stLoaded = NotLoaded
    /\ FetchIdle

WriteAggregateAll ==
    /\ last = NoCall
    /\ \E X \in SUBSET WriteFailures :
        \E r \in {getPortfolioWithRealtimeData(Env(X))} :
            /\ scripFile' = r.scripFile
            /\ priceFile' = r.priceFile
            /\ fundFile' = r.fundFile
            /\ last' = r.log
    /\ prev' = Summary(last)
    /\ calls' = calls + 1
    /\ UNCHANGED <<holdings, now, ticks, calcVars, storeVars, fetchVars, raceVars, pollVars>>

WriteAggregateOne ==
    /\ last = NoCall
    /\ \E symbol \in AskedSymbols, X \in SUBSET WriteFailures :
        \E r \in {getHoldingWithRealtimeData(symbol, Env(X))} :
            /\ scripFile' = r.scripFile
            /\ priceFile' = r.priceFile
            /\ fundFile' = r.fundFile
            /\ last' = r.log
    /\ prev' = Summary(last)
    /\ calls' = calls + 1
    /\ UNCHANGED <<holdings, now, ticks, calcVars, storeVars, fetchVars, raceVars, pollVars>>

WriteNext == WriteAggregateAll \/ WriteAggregateOne

SpecWrite == WriteInit /\ [][WriteNext]_vars

\* the environment of a logged call with its failing writes made to
\* succeed: the same searches and fetches fail, no write does
WritesSucceed(log) ==
    [faults |-> log.faults \ WriteOps,
     found |-> SearchedSymbols \ log.searchFailed,
     fundOk |-> Scripcodes \ (log.fundRequested \ log.fundFetched),
     priceOk |-> Scripcodes \ (log.priceRequested \ log.priceFetched)]

\* what the call of the log returns from the present files in environment e
ResultIn(log, e) ==
    IF log.kind = "all"
    THEN getPortfolioWithRealtimeData(e).log.result
    ELSE getHoldingWithRealtimeData(log.symbol, e).log.result

\* C17: a failing cache write does not leave the call, and the call returns
\* the holdings that the same call on the same files, with the same vendor
\* answers and every write succeeding, returns
TheoremC17 ==
    [][(calls' = calls + 1) =>
        /\ ~last'.raised
        /\ last'.result = ResultIn(last', WritesSucceed(last'))
      ]_vars

\* an aggregateAll call whose three saves all failed returned holdings with
\* a price of the vendor
WitnessC17 ==
    /\ last.kind = "all"
    /\ WriteOps \subseteq last.faults
    /\ ~last.raised
    /\ \E i \in 1..Len(last.result) :
            /\ "priceSource" \in DOMAIN last.result[i].realtime
            /\ last.result[i].realtime.priceSource = "bse"

-----------------------------------------------------------------------------
(* SpecRace: two aggregation calls running concurrently, one file          *)
(* operation or one vendor round at a time.  writeFile(path, data) opens   *)
(* the file truncating it and then writes the data at offset 0; nothing in *)
(* the stores serialises two of them, or a readFile with them.             *)

Procs == {1, 2}
Stores == {"scrip", "price", "fund"}

RaceCalls ==
    {[kind |-> "all", symbol |-> ""]}
        \cup {[kind |-> "one", symbol |-> x] : x \in {"HDFC", "500180"}}

NewProc(c) ==
    [kind |-> c.kind, symbol |-> c.symbol, pc |-> <<"load", "scrip">>,
     scripcodeCache |-> EmptyMap, priceCache |-> EmptyMap,
     symbolToScripcode |-> EmptyMap, fundamentalsMap |-> EmptyMap,
     priceDataMap |-> EmptyMap, toSave |-> Missing, result |-> <<>>]

FileOf(store) ==
    CASE store = "scrip" -> scripFile
      [] store = "price" -> priceFile
      [] store = "fund" -> fundFile

SetFile(store, f) ==
    /\ scripFile' = IF store = "scrip" THEN f ELSE scripFile
    /\ priceFile' = IF store = "price" THEN f ELSE priceFile
    /\ fundFile' = IF store = "fund" THEN f ELSE fundFile

\* the keys of the entries of a document
Entries(store, f) ==
    IF f.kind # "doc" THEN {}
    ELSE IF store = "fund" THEN DOMAIN f.doc.data ELSE DOMAIN f.doc

\* what a file holds after `new` is written at offset 0 over `cur`: a
\* shorter text leaves the tail of the longer one behind it
Overwrite(store, cur, new) ==
    IF cur.kind \in {"missing", "empty"} \/ cur = new THEN {new}
    ELSE IF cur.kind = "garbage" THEN {new, Garbage}
    ELSE LET a == Cardinality(Entries(store, new))
             b == Cardinality(Entries(store, cur))
         IN  IF a > b THEN {new}
             ELSE IF a < b THEN {Garbage}
             ELSE {new, Garbage}

\* where a call goes on after it is through with a store
AfterStore(kind, store) ==
    IF kind = "all"
    THEN CASE store = "scrip" -> <<"load", "fund">>
           [] store = "fund" -> <<"fetch", "price">>
           [] store = "price" -> <<"return", "">>
    ELSE CASE store = "scrip" -> <<"fetch", "price">>
           [] store = "price" -> <<"load", "fund">>
           [] store = "fund" -> <<"return", "">>

RaceInit ==
    /\ holdings \in Portfolios
    /\ last = NoCall /\ prev = NoPrev /\ calls = 0
    /\ now = 1 /\ ticks = 0
    /\ scripFile \in InitScripFiles
    /\ priceFile \in InitPriceFiles
    /\ fundFile \in InitFundFiles
    /\ procs \in [Procs -> {NewProc(c) : c \in RaceCalls}]
    /\ lastSave = [s \in Stores |-> [some |-> FALSE, file |-> Missing]]
    /\ PollIdle
    /\ cIn = [op |-> "none"] /\ cOut = Pending
    /\ stStore = "none" /\ stSaved = NotSaved /\ stLoaded = NotLoaded
    /\ FetchIdle

raceFrame == <<holdings, last, prev, calls, now, ticks, calcVars, storeVars,
               fetchVars, pollVars>>

\* holdings.find, then loadScripcodeCache
RaceLoadScrip(p) ==
    /\ procs[p].pc = <<"load", "scrip">>
    /\ procs' = [procs EXCEPT ![p] =
            IF @.kind = "one" /\ FindHolding(@.symbol) = 0
            THEN [@ EXCEPT !.pc = <<"done", "">>]
            ELSE [@ EXCEPT !.scripcodeCache = loadScripcodeCache(scripFile, TRUE),
                           !.pc = <<"load", "price">>]]
    /\ UNCHANGED <<fileVars, lastSave, raceFrame>>

\* loadPriceCache
RaceLoadPrice(p) ==
    /\ procs[p].pc = <<"load", "price">>
    /\ procs' = [procs EXCEPT ![p] =
            [@ EXCEPT !.priceCache = loadPriceCache(priceFile, TRUE, now),
                      !.pc = <<"resolve", "scrip">>]]
    /\ UNCHANGED <<fileVars, lastSave, raceFrame>>

\* the resolutions of the call and the decision to save the mapping
RaceResolve(p) ==
    /\ procs[p].pc = <<"resolve", "scrip">>
    /\ LET me == procs[p]
           symbols == IF me.kind = "all" THEN UniqueSymbols ELSE {me.symbol}
           resolved == [x \in symbols |->
                           resolveBSEScripcode(x, me.scripcodeCache, TRUE)]
           afterResolve == CacheAfterResolve(me.scripcodeCache, resolved)
           symbolToScripcode ==
               [x \in {y \in symbols : resolved[y].scripcode # ""} |->
                   resolved[x].scripcode]
           newMappings ==
               [x \in {y \in DOMAIN symbolToScripcode : y \notin DOMAIN afterResolve}
                   |-> symbolToScripcode[x]]
           merged == MapMerge(afterResolve, newMappings)
       IN  procs' = [procs EXCEPT ![p] =
               [@ EXCEPT !.symbolToScripcode = symbolToScripcode,
                         !.scripcodeCache = merged,
                         !.toSave = saveScripcodeCache(Missing, merged, TRUE),
                         !.pc = IF DOMAIN newMappings # {} THEN <<"open", "scrip">>
                                ELSE IF DOMAIN symbolToScripcode = {}
                                        /\ me.kind = "one"
                                THEN <<"return", "">>
                                ELSE AfterStore(me.kind, "scrip")]]
    /\ UNCHANGED <<fileVars, lastSave, raceFrame>>

\* getFundamentalsForBSEScripcodes up to its save
RaceLoadFund(p) ==
    /\ procs[p].pc = <<"load", "fund">>
    /\ LET me == procs[p]
           scripcodes == {me.symbolToScripcode[x] : x \in DOMAIN me.symbolToScripcode}
           cached == loadFundamentalsCache(fundFile, TRUE, now)
           result == IF cached.some THEN cached.m ELSE EmptyMap
           missingScripcodes == {k \in scripcodes : k \notin DOMAIN result}
           merged == MapMerge(result,
                        fetchMultipleBSEFundamentals(missingScripcodes, Scripcodes))
       IN  procs' = [procs EXCEPT ![p] =
               IF scripcodes = {}
               THEN [@ EXCEPT !.fundamentalsMap = EmptyMap,
                              !.pc = AfterStore(me.kind, "fund")]
               ELSE IF missingScripcodes = {}
               THEN [@ EXCEPT !.fundamentalsMap = result,
                              !.pc = AfterStore(me.kind, "fund")]
               ELSE [@ EXCEPT !.fundamentalsMap = merged,
                              !.toSave = saveFundamentalsCache(Missing, merged, TRUE, now),
                              !.pc = <<"open", "fund">>]]
    /\ UNCHANGED <<fileVars, lastSave, raceFrame>>

\* the price cache lookup and the price requests of the call
RaceFetchPrice(p) ==
    /\ procs[p].pc = <<"fetch", "price">>
    /\ LET me == procs[p]
           uniqueScripcodes ==
               {me.symbolToScripcode[x] : x \in DOMAIN me.symbolToScripcode}
           scripcodesToFetch == {k \in uniqueScripcodes : k \notin DOMAIN me.priceCache}
           fetchedPrices == fetchMultipleBSEData(scripcodesToFetch, Scripcodes, now)
           cachedPrices ==
               [k \in uniqueScripcodes \cap DOMAIN me.priceCache |-> me.priceCache[k]]
       IN  procs' = [procs EXCEPT ![p] =
               IF scripcodesToFetch = {}
               THEN [@ EXCEPT !.priceDataMap = cachedPrices,
                              !.pc = AfterStore(me.kind, "price")]
               ELSE IF me.kind = "all"
               THEN [@ EXCEPT !.priceDataMap = MapMerge(cachedPrices, fetchedPrices),
                              !.toSave = savePriceCache(Missing, fetchedPrices, TRUE, now),
                              !.pc = <<"open", "price">>]
               ELSE [@ EXCEPT !.priceDataMap = fetchedPrices,
                              !.pc = <<"reload", "price">>]]
    /\ UNCHANGED <<fileVars, lastSave, raceFrame>>

\* savePriceToCache: loadPriceCache again, then set the fetched price
RaceReloadPrice(p) ==
    /\ procs[p].pc = <<"reload", "price">>
    /\ LET me == procs[p]
           existing == loadPriceCache(priceFile, TRUE, now)
       IN  procs' = [procs EXCEPT ![p] =
               [@ EXCEPT !.toSave = savePriceCache(Missing,
                                        MapMerge(existing, me.priceDataMap), TRUE, now),
                         !.pc = <<"open", "price">>]]
    /\ UNCHANGED <<fileVars, lastSave, raceFrame>>

\* writeFile, first half: the file is opened and truncated
RaceOpen(p) ==
    \E store \in Stores :
        /\ procs[p].pc = <<"open", store>>
        /\ SetFile(store, EmptyFile)
        /\ procs' = [procs EXCEPT ![p].pc = <<"write", store>>]
        /\ UNCHANGED <<lastSave, raceFrame>>

\* writeFile, second half: the document is written from offset 0
RaceWrite(p) ==
    \E store \in Stores :
        /\ procs[p].pc = <<"write", store>>
        /\ \E f \in Overwrite(store, FileOf(store), procs[p].toSave) :
                SetFile(store, f)
        /\ lastSave' = [lastSave EXCEPT ![store] =
                            [some |-> TRUE, file |-> procs[p].toSave]]
        /\ procs' = [procs EXCEPT ![p].pc = AfterStore(procs[p].kind, store)]
        /\ UNCHANGED raceFrame

\* the holdings the call returns
RaceResult(me) ==
    IF me.kind = "all"
    THEN MapHoldings(me.symbolToScripcode, me.priceDataMap, me.fundamentalsMap)
    ELSE <<EnrichHolding(holdings[FindHolding(me.symbol)], me.symbolToScripcode,
                         me.priceDataMap, me.fundamentalsMap)>>

RaceReturn(p) ==
    /\ procs[p].pc = <<"return", "">>
    /\ procs' = [procs EXCEPT ![p] =
            [@ EXCEPT !.result = RaceResult(procs[p]), !.pc = <<"done", "">>]]
    /\ UNCHANGED <<fileVars, lastSave, raceFrame>>

RaceNext ==
    \E p \in Procs :
        \/ RaceLoadScrip(p)
        \/ RaceLoadPrice(p)
        \/ RaceResolve(p)
        \/ RaceLoadFund(p)
        \/ RaceFetchPrice(p)
        \/ RaceReloadPrice(p)
        \/ RaceOpen(p)
        \/ RaceWrite(p)
        \/ RaceReturn(p)

SpecRace == RaceInit /\ [][RaceNext]_vars

RaceDone == procs # <<>> /\ \A p \in Procs : procs[p].pc = <<"done", "">>

\* C18: once both concurrent calls have finished, every cache file that was
\* saved holds exactly the document of the save that finished last, and
\* each call has returned the holdings computed from the mapping, prices and
\* fundamentals it loaded or fetched itself
CounterC18 ==
    RaceDone =>
        /\ \A s \in Stores : lastSave[s].some => FileOf(s) = lastSave[s].file
        /\ \A p \in Procs :
                FindHolding(procs[p].symbol) # 0 \/ procs[p].kind = "all"
                    => procs[p].result = RaceResult(procs[p])

(* C19: the persisted scripcode mapping *)

\* every entry of document f is an entry of document g
KeepsEntries(f, g) ==
    \A x \in DOMAIN f.doc : x \in DOMAIN g.doc /\ g.doc[x] = f.doc[x]

\* C19: the persisted scripcode mapping is append-only: an entry that the
\* scripcode file holds before a call is in the file, with the same
\* identifier, after the call
CounterC19 ==
    [][(scripFile.kind = "doc" /\ scripFile'.kind = "doc")
            => KeepsEntries(scripFile, scripFile')]_vars

(* C20: one search per symbol *)

\* C20: when no cache read or write fails in two successive calls, a symbol
\* whose vendor search succeeded in the first is not searched in the second
CounterC20 ==
    [][(/\ calls' = calls + 1
        /\ last.kind # "none"
        /\ last.faults = {}
        /\ last'.faults = {})
            => last.found \cap last'.searched = {}]_vars

(* C21: age of the fundamentals served from the cache *)

\* when the fundamentals of k that the last call took from the cache were
\* obtained from the vendor: in the call before it if that call fetched
\* them, otherwise at time 1, when the file the process found was written
FundObtainedAt(k) == IF k \in prev.fundFetched THEN prev.at ELSE 1

\* C21: fundamentals that a call takes from the cache were obtained from the
\* vendor less than 24 hours before the call, also when the cache was saved
\* again in between for another identifier
CounterC21 ==
    (last.kind # "none" /\ calls <= 2) =>
        \A k \in last.fundCached :
            last.at - FundObtainedAt(k) < CACHE_DURATION_MS

(* C22: age of the prices served from the cache *)

\* the identifiers of the holdings of the last call's result, in order
ResultIds ==
    [i \in 1..Len(last.result) |->
        IF last.result[i].symbol \in DOMAIN last.resolvedTo
        THEN last.resolvedTo[last.result[i].symbol] ELSE ""]

\* C22: a price that a call takes from the price cache was obtained from the
\* vendor (its lastUpdated is the time of the fetch) less than 2 minutes
\* before the call, also when getHoldingWithRealtimeData has added the price
\* of another identifier to the store in between
CounterC22 ==
    last.kind # "none" =>
        \A i \in 1..Len(last.result) :
            ResultIds[i] \in last.priceCached =>
                last.at - last.result[i].realtime.lastUpdated < PRICE_CACHE_DURATION_MS

(* C23: the fundamentals overlay *)

\* the vendor value where there is one, the static value otherwise
Overlaid(vendor, static) == IF vendor = Null THEN static ELSE vendor

\* C23: for a resolved holding with fundamentals, peTTM, priceToBook and
\* latestEarnings of the returned block are the vendor's pe, pb and eps
\* wherever these are not null (0 included) and the static values where
\* they are null; every other field of the block is the static one
TheoremC23 ==
    (cOut.done /\ cIn.op = "overlay") =>
        /\ cOut.r.fundamentals.peTTM = Overlaid(cIn.bse.pe, cIn.existing.peTTM)
        /\ cOut.r.fundamentals.priceToBook =
                Overlaid(cIn.bse.pb, cIn.existing.priceToBook)
        /\ cOut.r.fundamentals.latestEarnings =
                Overlaid(cIn.bse.eps, cIn.existing.latestEarnings)
        /\ cOut.r.fundamentals.debtToEquity = cIn.existing.debtToEquity
        /\ DOMAIN cOut.r.fundamentals = DOMAIN cIn.existing

\* a vendor P/E of 0 replaced a static P/E while a null P/B kept the static one
WitnessC23 ==
    /\ cOut.done /\ cIn.op = "overlay"
    /\ cIn.bse.pe = Num(0) /\ cIn.existing.peTTM = Num(20)
    /\ cIn.bse.pb = Null /\ cIn.existing.priceToBook = Num(20)
    /\ cOut.r.fundamentals.peTTM = Num(0)
    /\ cOut.r.fundamentals.priceToBook = Num(20)

(* C24: when getPortfolioWithRealtimeData writes the scripcode file *)

NumericSymbols == {x \in UniqueSymbols : NonEmptyAllDigit(SymbolChars(x))}

\* C24: a getPortfolioWithRealtimeData call all of whose symbols are
\* all-digit or in the mapping it loaded does not write the scripcode file
\* and leaves it as it was, and no all-digit symbol is ever an entry of the
\* file a call leaves
CounterC24 ==
    [][(calls' = calls + 1 /\ last'.kind = "all") =>
        /\ UniqueSymbols \subseteq NumericSymbols \cup last'.scripCached =>
                (last'.scripSaves = 0 /\ scripFile' = scripFile)
        /\ scripFile'.kind = "doc" => DOMAIN scripFile'.doc \cap NumericSymbols = {}
      ]_vars

-----------------------------------------------------------------------------
(* SpecStatic: aggregation calls with the static store as an object that   *)
(* the calls could write to.  Both aggregators work on                     *)
(* updatedHolding = { ...holding } and assign only properties of           *)
(* updatedHolding itself.                                                  *)

\* a callback working on the holding itself instead of a copy
HoldingAfterCallback_Alias(holding, updatedHolding) == updatedHolding

\* the static holding after the callback that returned updatedHolding: the
\* spread made a new object, and replacing its realtime and fundamentals
\* properties does not reach the objects of the original
HoldingAfterCallback(holding, updatedHolding) == holding

\* the static store after the call of the log
StoreAfterCall(log) ==
    IF log.kind = "all" /\ ~log.raised
    THEN [i \in 1..Len(holdings) |->
            HoldingAfterCallback(holdings[i], log.result[i])]
    ELSE IF log.kind = "one" /\ ~log.raised /\ FindHolding(log.symbol) # 0
    THEN [holdings EXCEPT ![FindHolding(log.symbol)] =
            HoldingAfterCallback(@, log.result[1])]
    ELSE holdings

StaticFailures ==
    {<<"search", "HDFC">>, <<"fund", "500180">>, <<"price", "500209">>}

StaticInit ==
    /\ holdings \in Portfolios
    /\ last = NoCall /\ prev = NoPrev /\ calls = 0
    /\ RaceIdle /\ PollIdle
    /\ now = 1 /\ ticks = 0
    /\ scripFile \in InitScripFiles
    /\ priceFile \in InitPriceFiles
    /\ fundFile \in InitFundFiles
    /\ cIn = [op |-> "none"] /\ cOut = Pending
    /\ stStore = "none" /\ stSaved = NotSaved /\ stLoaded = NotLoaded
    /\ FetchIdle

StaticAggregateAll ==
    /\ calls < MaxCalls
    /\ \E X \in SUBSET StaticFailures :
        \E r \in {getPortfolioWithRealtimeData(Env(X))} :
            /\ scripFile' = r.scripFile
            /\ priceFile' = r.priceFile
            /\ fundFile' = r.fundFile
            /\ last' = r.log
            /\ holdings' = StoreAfterCall(r.log)
    /\ prev' = Summary(last)
    /\ calls' = calls + 1
    /\ UNCHANGED <<now, ticks, calcVars, storeVars, fetchVars, raceVars, pollVars>>

StaticAggregateOne ==
    /\ calls < MaxCalls
    /\ \E symbol \in AskedSymbols, X \in SUBSET StaticFailures :
        \E r \in {getHoldingWithRealtimeData(symbol, Env(X))} :
            /\ scripFile' = r.scripFile
            /\ priceFile' = r.priceFile
            /\ fundFile' = r.fundFile
            /\ last' = r.log
            /\ holdings' = StoreAfterCall(r.log)
    /\ prev' = Summary(last)
    /\ calls' = calls + 1
    /\ UNCHANGED <<now, ticks, calcVars, storeVars, fetchVars, raceVars, pollVars>>

StaticNext == StaticAggregateAll \/ StaticAggregateOne

SpecStatic == StaticInit /\ [][StaticNext]_vars

\* the static holding a returned record belongs to
StaticOf(log, i) ==
    IF log.kind = "all" THEN holdings[i] ELSE holdings[FindHolding(log.symbol)]

SameStaticPart(record, holding) ==
    /\ record.symbol = holding.symbol
    /\ record.companyName = holding.companyName
    /\ record.sector = holding.sector
    /\ record.fixed = holding.fixed
    /\ record.realtime.marketCap = holding.realtime.marketCap

\* C25: no call changes a static holding, and in every record a call
\* returns the symbol, company name, sector, fixed block and
\* realtime.marketCap are those of the static holding
TheoremC25 ==
    [][/\ holdings' = holdings
       /\ (calls' = calls + 1) =>
            \A i \in 1..Len(last'.result) :
                SameStaticPart(last'.result[i], StaticOf(last', i))
      ]_vars

\* two calls have run, the second returned a holding with a vendor price,
\* and the static holdings still carry their static realtime block
WitnessC25 ==
    /\ calls = 2
    /\ last.kind = "all"
    /\ \E i \in 1..Len(last.result) :
            /\ last.result[i].realtime.cmp # holdings[i].realtime.cmp
            /\ holdings[i].realtime.gainLossPercent = <<"s", "t", "a", "t", "i", "c">>

(* C26: the batch barrier *)

\* the positions whose request this step starts
Started == fmPending' \ fmPending

\* C26: at most BATCH_SIZE requests of a fetchMany call are in flight; a
\* batch is started only when no request is in flight, every request of the
\* earlier batches has settled, and a delay has elapsed after each earlier
\* batch; the price call of getPortfolioWithRealtimeData starts only after
\* the fundamentals call has returned, with none of its requests in flight
TheoremC26 ==
    [][/\ Cardinality(fmPending') <= BATCH_SIZE
       /\ Started # {} =>
            /\ fmPending = {}
            /\ \A q \in 1..Len(fmList) :
                    q < SetMin(Started) => q \in DOMAIN fmLog.settled
            /\ fmLog.delays = fmLog.batches
       /\ (fmKind = "fundamentals" /\ fmKind' = "price") =>
            /\ fmPc = "done" /\ fmPending = {}
            /\ \A q \in 1..Len(fmList) : q \in DOMAIN fmLog.settled
      ]_vars

\* the third batch of a price call of 25 identifiers is in flight, after
\* two delays
WitnessC26 ==
    /\ fmKind = "price" /\ Len(fmList) = 25
    /\ fmLog.batches = 3 /\ fmLog.delays = 2
    /\ Cardinality(fmPending) = 5

(* C27: the order of the three patterns of the symbol search *)

PiecesOf(kind) == {i \in 1..Len(cIn.reply.body) : cIn.reply.body[i].kind = kind}

\* the first run of 5 or 6 digits of a page without link and span
Candidate ==
    LET html == cIn.reply.body
        runs == {i \in 1..Len(html) : Len(html[i].n) \in {5, 6}}
    IN  IF runs = {} THEN <<>> ELSE html[SetMin(runs)].n

InRange(digits) == digits # <<>> /\ CharsToNat(digits) \in 500000..999999

\* C27: the search returns the number of the first stock-page link if the
\* page has one; otherwise the number of the first ISIN span if it has one;
\* otherwise the first 5 or 6 digit number provided it lies in
\* 500000..999999; otherwise nothing
TheoremC27 ==
    (cOut.done /\ cIn.op = "searchBSEScripcode" /\ cIn.reply.ok) =>
        LET html == cIn.reply.body
        IN  /\ PiecesOf("url") # {} => cOut.r = html[SetMin(PiecesOf("url"))].n
            /\ (PiecesOf("url") = {} /\ PiecesOf("span") # {}) =>
                    cOut.r = html[SetMin(PiecesOf("span"))].n
            /\ (PiecesOf("url") = {} /\ PiecesOf("span") = {}) =>
                    cOut.r = IF InRange(Candidate) THEN Candidate ELSE <<>>

\* a page whose first number is out of range and is followed by one in
\* range and by a span: the span wins
WitnessC27 ==
    /\ cOut.done /\ cIn.op = "searchBSEScripcode" /\ cIn.reply.ok
    /\ Len(cIn.reply.body) = 3
    /\ cIn.reply.body[1] = NumberPiece(NatToChars(12345))
    /\ cIn.reply.body[2] = NumberPiece(NatToChars(500000))
    /\ cIn.reply.body[3].kind = "span"
    /\ cOut.r = cIn.reply.body[3].n

(* C28: the numeric parsing policy of the fundamentals mapper *)

\* position of the first digit of a value that starts, after white space and
\* at most one sign, with a digit; 0 if the value has no such start
NumeralStart(x) ==
    LET s == x.s
        starts == {i \in 1..Len(s) :
                     /\ IsDigit(s[i])
                     /\ \A j \in 1..(i - 1) :
                            \/ s[j] = " "
                            \/ j = i - 1 /\ s[j] \in {"+", "-"}}
    IN  IF ~x.has \/ starts = {} THEN 0 ELSE SetMin(starts)

\* the number such a value starts with
NumeralValue(x) ==
    LET s == x.s
        i == NumeralStart(x)
        end == SetMax({k \in i..Len(s) : \A j \in i..k : IsDigit(s[j])})
        magnitude == CharsToNat(SubSeq(s, i, end))
    IN  IF i > 1 /\ s[i - 1] = "-" THEN 0 - magnitude ELSE magnitude

FieldPolicy(x, out, absent) ==
    IF NumeralStart(x) = 0 THEN out = absent ELSE out = Num(NumeralValue(x))

\* C28: a ratio field whose vendor value is missing, empty, white space,
\* "-" or without a number maps to null and never to 0, a value with a
\* number maps to that number; the face value maps to 0 in the first case
TheoremC28 ==
    (cOut.done /\ cIn.op = "mapBSEFundamentalsResponse") =>
        /\ FieldPolicy(cIn.data.PE, cOut.r.ratios.pe, Null)
        /\ FieldPolicy(cIn.data.PB, cOut.r.ratios.pb, Null)
        /\ FieldPolicy(cIn.data.EPS, cOut.r.ratios.eps, Null)
        /\ FieldPolicy(cIn.data.FaceVal, cOut.r.faceValue, Num(0))
        /\ (cIn.data.PE \in {MissingStr, Str(<<>>), Str(<<"-">>), Str(<<" ">>),
                              Str(<<" ", " ">>), Str(<<"x">>)})
              => cOut.r.ratios.pe = Null

\* PE "-" with a face value of "x": null and 0
WitnessC28 ==
    /\ cOut.done /\ cIn.op = "mapBSEFundamentalsResponse"
    /\ cIn.data.PE = Str(<<"-">>) /\ cIn.data.FaceVal = Str(<<"x">>)
    /\ cOut.r.ratios.pe = Null /\ cOut.r.faceValue = Num(0)

(* C29: aggregateOne against aggregateAll *)

\* the vendor requests that can fail
VendorFailures == {x \in AllFailures : x[1] # "io"}

PositionsOf(symbol) == {i \in 1..Len(holdings) : holdings[i].symbol = symbol}

\* C29: from the same cache files, at the same time and with the same vendor
\* responses, getHoldingWithRealtimeData(s) returns null without reading a
\* cache or asking the vendor if no holding has the symbol s, and otherwise
\* the record getPortfolioWithRealtimeData returns for the first holding
\* with the symbol s
TheoremC29 ==
    /\ \A symbol \in AskedSymbols \ UniqueSymbols :
        \A one \in {getHoldingWithRealtimeData(symbol, Env(AllFailures))} :
            /\ one.log.result = <<>>
            /\ one.log.faults = {} /\ ~one.log.raised
            /\ one.log.searched = {}
            /\ one.log.fundRequested = {} /\ one.log.priceRequested = {}
            /\ one.scripFile = scripFile /\ one.priceFile = priceFile
            /\ one.fundFile = fundFile
    /\ \A X \in SUBSET VendorFailures :
        \A all \in {getPortfolioWithRealtimeData(Env(X)).log.result} :
            \A symbol \in AskedSymbols \cap UniqueSymbols :
                \A one \in {getHoldingWithRealtimeData(symbol, Env(X)).log.result} :
                    /\ Len(one) = 1
                    /\ one[1] = all[SetMin(PositionsOf(symbol))]

\* after a first call, from a state with the fundamentals of HDFC cached and
\* its price not: the record of the twice held HDFC, with a fetched price,
\* is the one of its first holding
WitnessC29 ==
    /\ calls >= 1
    /\ Cardinality(PositionsOf("HDFC")) = 2
    /\ \E one \in {getHoldingWithRealtimeData("HDFC", Env({})).log},
          all \in {getPortfolioWithRealtimeData(Env({})).log.result} :
            /\ one.priceFetched # {} /\ one.fundCached # {}
            /\ one.result[1] = all[1]
            /\ one.result[1] # all[3]
            /\ one.result[1].realtime.priceSource = "bse"

----------------------------------------------------------------------------
(* SpecPoll: the dashboard's hook usePortfolioData polling
   GET /api/portfolio/realtime *)

\* setInterval(fetchData, 30000)
POLL_INTERVAL_MS == 30000

\* fetchData calls started in one behaviour
MaxPolls == 3

\* Error messages the catch block stores: the hook's own for a non-2xx
\* response, the one of fetch for a request that did not get through
PollErrors == {"Failed to fetch portfolio data", "Failed to fetch"}

\* what may fail inside the server while it answers a poll
PollFailures == {{}, {<<"price", "500209">>}, {<<"search", "HDFC">>}}

\* GET /api/portfolio/realtime: status 200 with the holdings and the
\* server's time, status 500 if the aggregation throws
GET(r) ==
    IF r.log.raised THEN [ok |-> FALSE]
    ELSE [ok |-> TRUE,
          data |-> [holdings |-> r.log.result, lastUpdated |-> toLocaleString(now)]]

\* fetchData up to its first await: setLoading(true); setError(null)
fetchDataStart(v) == [v EXCEPT !.loading = TRUE, !.error = NoError]

\* fetchData after response.json(): setHoldings, setLastUpdated, and the
\* finally block
fetchDataOk(v, data) ==
    [v EXCEPT !.holdings = data.holdings,
              !.lastUpdated = IF data.lastUpdated.at # 0 THEN data.lastUpdated
                              ELSE toLocaleString(now),
              !.loading = FALSE]

\* fetchData through its catch block: setError, and the finally block
fetchDataFailed(v, message) == [v EXCEPT !.error = message, !.loading = FALSE]

StartPoll(p) ==
    [p EXCEPT !.started = @ + 1, !.flying = @ \cup {p.started + 1}]

PollInit ==
    /\ holdings \in Portfolios
    /\ last = NoCall /\ prev = NoPrev /\ calls = 0
    /\ RaceIdle /\ PollIdle
    /\ now = 1 /\ ticks = 0
    /\ scripFile \in InitScripFiles
    /\ priceFile \in InitPriceFiles
    /\ fundFile \in InitFundFiles
    /\ cIn = [op |-> "none"] /\ cOut = Pending
    /\ stStore = "none" /\ stSaved = NotSaved /\ stLoaded = NotLoaded
    /\ FetchIdle

pollFrame == <<ticks, calcVars, storeVars, fetchVars, aggVars, raceVars>>

\* useEffect(() => { fetchData(); setInterval(fetchData, 30000) }, [])
PollMount ==
    /\ ~view.mounted
    /\ view' = fetchDataStart([view EXCEPT !.mounted = TRUE])
    /\ polls' = StartPoll(polls)
    /\ UNCHANGED <<now, fileVars, pollFrame>>

\* the interval timer fires, whether or not an earlier fetchData has returned
PollInterval ==
    /\ view.mounted
    /\ polls.started < MaxPolls
    /\ now' = now + POLL_INTERVAL_MS
    /\ view' = fetchDataStart(view)
    /\ polls' = StartPoll(polls)
    /\ UNCHANGED <<fileVars, pollFrame>>

\* the server answers one of the requests in flight with status 200
PollSucceed ==
    /\ \E id \in polls.flying, X \in PollFailures :
        \E r \in {getPortfolioWithRealtimeData(Env(X))} :
            /\ GET(r).ok
            /\ scripFile' = r.scripFile
            /\ priceFile' = r.priceFile
            /\ fundFile' = r.fundFile
            /\ view' = fetchDataOk(view, GET(r).data)
            /\ polls' = [polls EXCEPT
                            !.flying = @ \ {id},
                            !.settled = [id |-> id, ok |-> TRUE,
                                         holdings |-> GET(r).data.holdings,
                                         lastUpdated |-> GET(r).data.lastUpdated]]
    /\ UNCHANGED <<now, pollFrame>>

\* one of the requests in flight fails: no response, or a non-2xx status
PollFail ==
    /\ \E id \in polls.flying, message \in PollErrors :
            /\ view' = fetchDataFailed(view, message)
            /\ polls' = [polls EXCEPT
                            !.flying = @ \ {id},
                            !.settled = [id |-> id, ok |-> FALSE,
                                         holdings |-> <<>>,
                                         lastUpdated |-> toLocaleString(0)]]
    /\ UNCHANGED <<now, fileVars, pollFrame>>

PollNext == PollMount \/ PollInterval \/ PollSucceed \/ PollFail

SpecPoll == PollInit /\ [][PollNext]_vars

(* C30: the polling hook *)

\* C30 as stated, the successful poll: after a poll has succeeded the
\* holdings shown are those of its response and error is null
CounterC30 ==
    polls.settled.ok =>
        /\ view.holdings = polls.settled.holdings
        /\ view.error = NoError

\* a failing poll leaves holdings and lastUpdated as they were and sets error
PollFailureKeepsData ==
    [][(polls'.settled.id # polls.settled.id /\ ~polls'.settled.ok) =>
            /\ view'.holdings = view.holdings
            /\ view'.lastUpdated = view.lastUpdated
            /\ view'.error \in PollErrors]_vars

\* once mounted, loading is false whenever no poll is in flight
PollIdleNotLoading ==
    (view.mounted /\ polls.flying = {}) => ~view.loading


====
